---- MODULE Spec2Model ----
(***************************************************************************)
(* Model of the authentication engine and token lifecycle of sso_service:  *)
(* client-credentials and password login, token issuance and               *)
(* introspection, the Redis-backed session and PKCE-code stores, refresh,  *)
(* realm switch, logout and the OAuth callback flow.                       *)
(*                                                                         *)
(* Time is the unix clock in whole seconds.  Identifiers produced by uuid4 *)
(* (session ids, jti, PKCE states, user ids) are fresh positive integers;  *)
(* the Python value None used as an identifier is 0.  A Redis key is the   *)
(* sequence of its ":"-separated parts.  A JWT is the record               *)
(* [signed, payload]; its payload is a function from claim names to        *)
(* values, so presence of a claim is membership in DOMAIN.                 *)
(***************************************************************************)
EXTENDS Integers, Sequences, FiniteSets, TLC

VARIABLES
    now,          \* the clock, unix seconds
    ticks,        \* number of clock advances so far
    redis,        \* the Redis key space: key -> [val, exp]
    users,        \* user table: id -> [email, password, status]
    identities,   \* user_identity table
    user_groups,  \* user_group table: <<user id, group>>
    tokens,       \* every JWT signed so far
    sessions_made, \* history: the call that constructed session i (uuid4 draws)
    n_states,     \* number of PKCE states generated (uuid4 draws)
    handlers,     \* OAuth callback handlers in flight
    logouts,      \* history: session ids logout_user was called with
    consumed,     \* history: PKCE states whose pop has completed
    last          \* the call that returned last, with its outcome

vars == <<now, ticks, redis, users, identities, user_groups, tokens, sessions_made,
          n_states, handlers, logouts, consumed, last>>

(***************************************************************************)
(* Program constants (seconds).                                            *)
(***************************************************************************)
USER_ACCESS_TOKEN_EXPIRE_IN == 900
USER_REFRESH_TOKEN_EXPIRE_IN == 604800
CLIENT_ACCESS_TOKEN_EXPIRE_IN == 1800
SESSION_EXPIRE_IN == 604800
SESSION_REFRESH_THRESHOLD == 432000
SESSION_REFRESH_IN == 172800
CODES_TTL == 200
ISSUER == "https://davalka.ru"
DEFAULT_ROLES == <<"user">>
Role == {"superadmin", "admin", "user", "guest"}
SESSION_PREFIX == "session"
CODES_PREFIX == "codes"

(***************************************************************************)
(* Bounds of the model.                                                    *)
(***************************************************************************)
MaxTicks == 2        \* clock advances per behaviour
MaxPairs == 2        \* token pairs issued per behaviour
MaxClientTokens == 2 \* client access tokens issued per behaviour
MaxStates == 1       \* PKCE states generated per behaviour
MaxScopes == 3       \* length of a scope list
ShortStep == 1000    \* a clock advance past the access-token lifetime
ClientStep == 1860   \* a clock advance of 31 minutes
CodesStep == 100     \* a clock advance of half the lifetime of a PKCE state
LongStep == 345600   \* a clock advance of four days
MaxGroups == 2       \* groups a user belongs to in one realm
MaxGroupRoles == 2   \* length of the role list of a group
MaxUsers == 5        \* rows of the users table

None == 0
NoExpiry == -1
NoDict == <<>>
NoPassword == <<>>

Range(s) == {s[i] : i \in 1..Len(s)}

\* dict.update / {**p, **q}
Update(p, q) ==
    [k \in DOMAIN p \cup DOMAIN q |-> IF k \in DOMAIN q THEN q[k] ELSE p[k]]

\* the entries of dict p whose key is in keys
Restrict(p, keys) == [k \in DOMAIN p \cap keys |-> p[k]]

\* all orders in which the elements of a set can be listed
RECURSIVE Perms(_)
Perms(S) ==
    IF S = {} THEN {<<>>}
    ELSE UNION {{<<x>> \o p : p \in Perms(S \ {x})} : x \in S}

\* " ".join(words): the words with a " " between neighbours
RECURSIVE JoinSp(_)
JoinSp(words) ==
    IF Len(words) = 0 THEN <<>>
    ELSE IF Len(words) = 1 THEN <<words[1]>>
    ELSE <<words[1], " ">> \o JoinSp(Tail(words))

\* string.split(" "): the maximal runs between separators, empty runs kept
RECURSIVE SplitSp(_)
SplitSp(string) ==
    IF \A i \in 1..Len(string) : string[i] # " " THEN <<string>>
    ELSE LET i == CHOOSE j \in 1..Len(string) :
                      string[j] = " " /\ \A k \in 1..(j - 1) : string[k] # " "
         IN <<SubSeq(string, 1, i - 1)>> \o SplitSp(SubSeq(string, i + 1, Len(string)))

(***************************************************************************)
(* security.py                                                             *)
(***************************************************************************)
hash_secret(secret) == <<"argon2", secret>>

verify_secret(plain_secret, hashed_secret) == hashed_secret = <<"argon2", plain_secret>>

\* the same, an iat the payload already carries kept as it is
issue_token_keep_iat(token_type, payload, expires_in, t, jti) ==
    [signed |-> TRUE,
     payload |-> Update(payload,
                        [exp |-> t + expires_in,
                         iat |-> IF "iat" \in DOMAIN payload THEN payload.iat ELSE t,
                         token_type |-> token_type, jti |-> jti])]

\* jwt.encode of the payload with exp, iat, token_type and a fresh jti set
issue_token(token_type, payload, expires_in, t, jti) ==
    [signed |-> TRUE,
     payload |-> Update(payload, [exp |-> t + expires_in, iat |-> t,
                                  token_type |-> token_type, jti |-> jti])]

\* jwt.decode with only verify_aud switched off: the signature and, when
\* present, exp are verified; any failure is InvalidTokenError
decode_token(token, t) ==
    IF ~token.signed THEN [ok |-> FALSE, payload |-> NoDict]
    ELSE IF "exp" \in DOMAIN token.payload /\ token.payload.exp <= t
         THEN [ok |-> FALSE, payload |-> NoDict]
         ELSE [ok |-> TRUE, payload |-> token.payload]

(***************************************************************************)
(* storage.py: RedisStore over the shared key space                        *)
(***************************************************************************)
_build_key(prefix, string) == <<prefix>> \o string

build_key(prefix, string) == <<prefix>> \o string

RedisSet(r, key, value) ==
    [k \in DOMAIN r \cup {key} |->
        IF k = key THEN [val |-> value, exp |-> NoExpiry] ELSE r[k]]

RedisDel(r, key) == [k \in DOMAIN r \ {key} |-> r[k]]

RedisExpire(r, key, ttl, t) ==
    IF key \notin DOMAIN r THEN r
    ELSE IF ttl <= 0 THEN RedisDel(r, key)
    ELSE [r EXCEPT ![key].exp = t + ttl]

\* keys whose expiry has passed are gone
RedisPurge(r, t) ==
    [k \in {j \in DOMAIN r : r[j].exp = NoExpiry \/ r[j].exp > t} |-> r[k]]

\* the same, the ttl taken as a point in time instead of a duration
add_ttl_from_epoch(r, prefix, key, schema, ttl, t) ==
    LET k == _build_key(prefix, key)
        r1 == RedisSet(r, k, schema)
    IN IF ttl # 0 THEN RedisExpire(r1, k, ttl, 0) ELSE r1

add(r, prefix, key, schema, ttl, t) ==
    LET k == _build_key(prefix, key)
        r1 == RedisSet(r, k, schema)
    IN IF ttl # 0 THEN RedisExpire(r1, k, ttl, t) ELSE r1

get(r, prefix, key) ==
    LET k == _build_key(prefix, key)
    IN IF k \in DOMAIN r THEN [found |-> TRUE, val |-> r[k].val]
       ELSE [found |-> FALSE, val |-> NoDict]

exists(r, prefix, key) == _build_key(prefix, key) \in DOMAIN r

refresh_ttl(r, prefix, key, ttl, t) ==
    LET k == _build_key(prefix, key)
    IN IF ~exists(r, prefix, k) THEN [redis |-> r, found |-> FALSE, val |-> NoDict]
       ELSE LET r1 == IF ttl # 0 THEN RedisExpire(r, k, ttl, t) ELSE r
                g == get(r1, prefix, k)
            IN [redis |-> r1, found |-> g.found, val |-> g.val]

delete(r, prefix, key) ==
    LET k == _build_key(prefix, key)
    IN [redis |-> RedisDel(r, k), deleted |-> k \in DOMAIN r]

(***************************************************************************)
(* Persistent tables the core only reads (realms, clients, groups).        *)
(***************************************************************************)
Realms ==
    [acme |-> [enabled |-> TRUE], beta |-> [enabled |-> TRUE],
     ghost |-> [enabled |-> FALSE]]

Clients ==
    [svc_a |-> [realm |-> "acme", client_secret |-> hash_secret("S"),
                enabled |-> TRUE, scopes |-> <<"api:read", "api:write">>],
     svc_off |-> [realm |-> "acme", client_secret |-> hash_secret("S"),
                  enabled |-> FALSE, scopes |-> <<"api:read">>],
     svc_g |-> [realm |-> "ghost", client_secret |-> hash_secret("S"),
                enabled |-> TRUE, scopes |-> <<"api:read">>]]

Groups ==
    [g1 |-> [realm |-> "acme", roles |-> <<"admin">>],
     g2 |-> [realm |-> "acme", roles |-> <<"user", "admin">>]]

UserGroups == {<<1, "g1">>, <<1, "g2">>}

\* users 1 and 2 registered with a password; user 3 registered through a
\* provider and has none
InitUsers ==
    [u \in {1, 2, 3} |->
        IF u = 1
        THEN [email |-> "u1@x.y", password |-> hash_secret("pw1"), status |-> "active"]
        ELSE IF u = 2
        THEN [email |-> "u2@x.y", password |-> hash_secret("pw2"), status |-> "banned"]
        ELSE [email |-> "u3@x.y", password |-> NoPassword, status |-> "active"]]

InitIdentities == {[user_id |-> 3, provider_user_id |-> "p1"]}

\* the same users and user 4, whose account was deleted (the row stays)
LoginUsers ==
    [u \in {1, 2, 3, 4} |->
        IF u = 4
        THEN [email |-> "u5@x.y", password |-> hash_secret("pw1"), status |-> "deleted"]
        ELSE InitUsers[u]]

RealmSlugs == DOMAIN Realms
Scopes == {"api:read", "api:write", "api:admin"}

\* RealmRepository.get_by_slug
get_by_slug(slug) ==
    IF slug \in DOMAIN Realms THEN [found |-> TRUE, val |-> Realms[slug]]
    ELSE [found |-> FALSE, val |-> NoDict]

\* ClientRepository.get_by_client_id: the client row joined to its realm
get_by_client_id(realm_slug, client_id) ==
    IF client_id \in DOMAIN Clients /\ Clients[client_id].realm = realm_slug
    THEN [found |-> TRUE, val |-> Clients[client_id]]
    ELSE [found |-> FALSE, val |-> NoDict]

\* UserRepository.get_by_email
get_by_email(us, email) ==
    LET hit == {u \in DOMAIN us : us[u].email = email}
    IN IF hit = {} THEN [found |-> FALSE, id |-> None]
       ELSE [found |-> TRUE, id |-> CHOOSE u \in hit : TRUE]

\* GroupRepository.get_by_user
get_by_user(realm_slug, user_id) ==
    {g \in DOMAIN Groups : <<user_id, g>> \in user_groups /\ Groups[g].realm = realm_slug}

(***************************************************************************)
(* core/domain.py                                                          *)
(***************************************************************************)
\* str() of a pydantic HttpUrl: a URL without a path gets "/"
HttpUrlStr(iss) == IF iss = "https://davalka.ru" THEN "https://davalka.ru/" ELSE iss

\* User.to_payload
User_to_payload(user, id, realm, roles) ==
    [iss |-> ISSUER, sub |-> id, email |-> user.email, status |-> user.status,
     realm |-> realm, roles |-> [t |-> "str", v |-> JoinSp(roles)]]

\* Client.to_payload
Client_to_payload(client, client_id, realm) ==
    [iss |-> ISSUER, sub |-> client_id, scope |-> JoinSp(client.scopes), realm |-> realm]

ClaimsFields == {"active", "cause", "token_type", "iss", "sub", "aud", "exp", "iat", "jti"}

\* UserClaims.validate_roles: a list is kept, a string is split into Role values
validate_roles(roles) ==
    IF roles.t = "list" THEN [ok |-> TRUE, v |-> roles.v]
    ELSE LET words == SplitSp(roles.v)
         IN IF \A i \in 1..Len(words) : Len(words[i]) = 1 /\ words[i][1] \in Role
            THEN [ok |-> TRUE, v |-> [i \in 1..Len(words) |-> words[i][1]]]
            ELSE [ok |-> FALSE, v |-> <<>>]

\* UserClaims(**fields): unknown keys are ignored, roles are validated; the
\* result is the view model_dump(exclude_none=True) gives
UserClaims(fields) ==
    LET c0 == Restrict(fields, ClaimsFields \cup {"status", "realm", "roles"})
        c == IF "iss" \in DOMAIN c0 THEN Update(c0, [iss |-> HttpUrlStr(c0.iss)]) ELSE c0
    IN IF "roles" \notin DOMAIN c THEN [ok |-> TRUE, claims |-> c]
       ELSE LET vr == validate_roles(c.roles)
            IN IF vr.ok
               THEN [ok |-> TRUE,
                     claims |-> Update(c, [roles |-> [t |-> "list", v |-> vr.v]])]
               ELSE [ok |-> FALSE, claims |-> NoDict]

\* ClientClaims(**fields)
ClientClaims(fields) ==
    LET c0 == Restrict(fields, ClaimsFields \cup {"realm", "scope"})
    IN IF "iss" \in DOMAIN c0 THEN Update(c0, [iss |-> HttpUrlStr(c0.iss)]) ELSE c0

\* Session(user_id, expires_at): a fresh session_id, last_activity is the clock
Session(session_id, user_id, expires_at, t) ==
    [session_id |-> session_id, user_id |-> user_id, expires_at |-> expires_at,
     last_activity |-> t]

\* core/utils.py
expires_at(expires_in, t) == t + expires_in

\* the outcome of a call: an error kind and message, or "ok" with the claims
\* or the token response it returned
Out(err, msg, claims, result) ==
    [err |-> err, msg |-> msg, claims |-> claims, result |-> result]

\* a call's outcome together with the key space it leaves behind
Res(out, r) == [out |-> out, redis |-> r]

Fail(r, err, msg) == Res(Out(err, msg, NoDict, NoDict), r)

(***************************************************************************)
(* services.py: UserAuthService.  A handler is an operator from the state  *)
(* it reads and its arguments to the set of results it can produce.        *)
(***************************************************************************)
\* _give_roles once the groups are read: DEFAULT_ROLES without groups, else
\* list(set of the groups' roles); a set is listed in an order the language
\* does not fix.  groups is the set of the role lists of the groups
give_roles_of(groups) ==
    IF groups = {} THEN {DEFAULT_ROLES} ELSE Perms(UNION {Range(g) : g \in groups})

\* _give_roles
_give_roles(realm, user_id) ==
    give_roles_of({Groups[g].roles : g \in get_by_user(realm, user_id)})

\* a pair whose refresh token is signed from a payload without the roles
generate_token_pair_split(payload, session_id, t, jti) ==
    [access_token |-> issue_token("access", payload, USER_ACCESS_TOKEN_EXPIRE_IN, t, jti),
     refresh_token |-> issue_token("refresh", Restrict(payload, DOMAIN payload \ {"roles"}),
                                   USER_REFRESH_TOKEN_EXPIRE_IN, t, jti + 1),
     session_id |-> session_id,
     expires_at |-> expires_at(USER_ACCESS_TOKEN_EXPIRE_IN, t)]

\* _generate_token_pair: both tokens are signed from the one payload
_generate_token_pair(payload, session_id, t, jti) ==
    [access_token |-> issue_token("access", payload, USER_ACCESS_TOKEN_EXPIRE_IN, t, jti),
     refresh_token |-> issue_token("refresh", payload, USER_REFRESH_TOKEN_EXPIRE_IN, t,
                                   jti + 1),
     session_id |-> session_id,
     expires_at |-> expires_at(USER_ACCESS_TOKEN_EXPIRE_IN, t)]

\* UserAuthService.authenticate
authenticate(r, us, realm, email, password, t, sid, jti) ==
    LET u == get_by_email(us, email)
    IN IF ~u.found THEN {Fail(r, "InvalidCredentialsError", "Invalid email")}
       ELSE IF us[u.id].status = "banned"
       THEN {Fail(r, "NotEnabledError", "User is banned")}
       ELSE IF us[u.id].password = NoPassword
       THEN {Fail(r, "AttributeError", "get_secret_value")}
       ELSE IF ~verify_secret(password, us[u.id].password)
       THEN {Fail(r, "InvalidCredentialsError", "Invalid password")}
       ELSE {LET payload == User_to_payload(us[u.id], u.id, realm, roles)
                 session == Session(sid, u.id, expires_at(SESSION_EXPIRE_IN, t), t)
                 key == build_key(SESSION_PREFIX, <<session.session_id>>)
             IN Res(Out("ok", "", NoDict,
                        _generate_token_pair(payload, session.session_id, t, jti)),
                    add(r, SESSION_PREFIX, key, session, session.expires_at - t, t))
             : roles \in _give_roles(realm, u.id)}

\* UserAuthService.introspect, from decode_token on
introspect_claims(token, realm, t) ==
    LET d == decode_token(token, t)
        payload == d.payload
    IN IF ~d.ok
       THEN Out("UnauthorizedError", "Invalid token", NoDict, NoDict)
       ELSE IF "realm" \notin DOMAIN payload \/ payload.realm # realm
       THEN Out("ok", "", [active |-> FALSE, cause |-> "Invalid token in this realm"],
                NoDict)
       ELSE IF "exp" \in DOMAIN payload /\ payload.exp < t
       THEN Out("ok", "", [active |-> FALSE, cause |-> "Token expired"], NoDict)
       ELSE LET c == UserClaims(Update(payload, [active |-> TRUE]))
            IN IF c.ok THEN Out("ok", "", c.claims, NoDict)
               ELSE Out("ValidationError", "roles", NoDict, NoDict)

\* introspect with the session lookup left out
introspect_no_session(r, token, realm, session_id, t) ==
    introspect_claims(token, realm, t)

\* UserAuthService.introspect
introspect(r, token, realm, session_id, t) ==
    LET key == build_key(SESSION_PREFIX, <<session_id>>)
    IN IF ~exists(r, SESSION_PREFIX, key) \/ session_id = None
       THEN Out("UnauthorizedError", "Session not found", NoDict, NoDict)
       ELSE introspect_claims(token, realm, t)

\* refresh that ends the session when the claims are not active
refresh_drop_session(r, token, realm, session_id, t, jti) ==
    LET key == build_key(SESSION_PREFIX, <<session_id>>)
        session == get(r, SESSION_PREFIX, key)
        claims == introspect(r, token, realm, session_id, t)
    IN IF ~session.found
       THEN {Fail(r, "UnauthorizedError", "Session not found or expired")}
       ELSE IF claims.err # "ok" THEN {Fail(r, claims.err, claims.msg)}
       ELSE IF ~claims.claims.active
       THEN {Fail(delete(r, SESSION_PREFIX, key).redis, "UnauthorizedError",
                  claims.claims.cause)}
       ELSE IF session.val.expires_at - t < SESSION_REFRESH_THRESHOLD
       THEN {Fail(r, "TypeError", "float + timedelta")}
       ELSE {Res(Out("ok", "", NoDict,
                     _generate_token_pair(
                         Update(claims.claims, [roles |-> [t |-> "list", v |-> roles]]),
                         session_id, t, jti)),
                 r)
             : roles \in _give_roles(realm, claims.claims.sub)}

\* refresh that grants the session a whole new lifetime, counted from now
refresh_renew(r, token, realm, session_id, t, jti) ==
    LET key == build_key(SESSION_PREFIX, <<session_id>>)
        session == get(r, SESSION_PREFIX, key)
        claims == introspect(r, token, realm, session_id, t)
    IN IF ~session.found
       THEN {Fail(r, "UnauthorizedError", "Session not found or expired")}
       ELSE IF claims.err # "ok" THEN {Fail(r, claims.err, claims.msg)}
       ELSE IF ~claims.claims.active
       THEN {Fail(r, "UnauthorizedError", claims.claims.cause)}
       ELSE {Res(Out("ok", "", NoDict,
                     _generate_token_pair(
                         Update(claims.claims, [roles |-> [t |-> "list", v |-> roles]]),
                         session_id, t, jti)),
                 IF session.val.expires_at - t < SESSION_REFRESH_THRESHOLD
                 THEN RedisExpire(r, _build_key(SESSION_PREFIX, key),
                                  SESSION_EXPIRE_IN + SESSION_REFRESH_IN, t)
                 ELSE r)
             : roles \in _give_roles(realm, claims.claims.sub)}

\* refresh that re-signs the claims of the token with the roles they carry
refresh_keep_roles(r, token, realm, session_id, t, jti) ==
    LET key == build_key(SESSION_PREFIX, <<session_id>>)
        session == get(r, SESSION_PREFIX, key)
        claims == introspect(r, token, realm, session_id, t)
    IN IF ~session.found
       THEN {Fail(r, "UnauthorizedError", "Session not found or expired")}
       ELSE IF claims.err # "ok" THEN {Fail(r, claims.err, claims.msg)}
       ELSE IF ~claims.claims.active
       THEN {Fail(r, "UnauthorizedError", claims.claims.cause)}
       ELSE IF session.val.expires_at - t < SESSION_REFRESH_THRESHOLD
       THEN {Fail(r, "TypeError", "float + timedelta")}
       ELSE {Res(Out("ok", "", NoDict,
                     _generate_token_pair(claims.claims, session_id, t, jti)),
                 r)}

\* UserAuthService.refresh
refresh(r, token, realm, session_id, t, jti) ==
    LET key == build_key(SESSION_PREFIX, <<session_id>>)
        session == get(r, SESSION_PREFIX, key)
        claims == introspect(r, token, realm, session_id, t)
    IN IF ~session.found
       THEN {Fail(r, "UnauthorizedError", "Session not found or expired")}
       ELSE IF claims.err # "ok" THEN {Fail(r, claims.err, claims.msg)}
       ELSE IF ~claims.claims.active
       THEN {Fail(r, "UnauthorizedError", claims.claims.cause)}
       ELSE IF session.val.expires_at - t < SESSION_REFRESH_THRESHOLD
       THEN \* ttl=session_delay + SESSION_REFRESH_IN adds a timedelta to a float
            {Fail(r, "TypeError", "float + timedelta")}
       ELSE {Res(Out("ok", "", NoDict,
                     _generate_token_pair(
                         Update(claims.claims, [roles |-> [t |-> "list", v |-> roles]]),
                         session_id, t, jti)),
                 r)
             : roles \in _give_roles(realm, claims.claims.sub)}

\* refresh from its second await on: session is what its first await read
refresh_resume(r, session, token, realm, session_id, t, jti) ==
    LET claims == introspect(r, token, realm, session_id, t)
    IN IF claims.err # "ok" THEN {Fail(r, claims.err, claims.msg)}
       ELSE IF ~claims.claims.active
       THEN {Fail(r, "UnauthorizedError", claims.claims.cause)}
       ELSE IF session.expires_at - t < SESSION_REFRESH_THRESHOLD
       THEN {Fail(r, "TypeError", "float + timedelta")}
       ELSE {Res(Out("ok", "", NoDict,
                     _generate_token_pair(
                         Update(claims.claims, [roles |-> [t |-> "list", v |-> roles]]),
                         session_id, t, jti)),
                 r)
             : roles \in _give_roles(realm, claims.claims.sub)}

\* _can_switch_realm
_can_switch_realm(target_realm) ==
    LET realm == get_by_slug(target_realm)
    IN realm.found /\ realm.val.enabled

\* UserAuthService.switch_realm
switch_realm(r, us, current_realm, target_realm, refresh_token, session_id, t, jti) ==
    LET session == get(r, SESSION_PREFIX, <<session_id>>)
        claims == introspect(r, refresh_token, current_realm, session_id, t)
    IN IF current_realm = target_realm
       THEN {Fail(r, "ValueError", "Realms must be different!")}
       ELSE IF ~session.found
       THEN {Fail(r, "UnauthorizedError", "Invalid session or session expired")}
       ELSE IF claims.err # "ok" THEN {Fail(r, claims.err, claims.msg)}
       ELSE IF ~claims.claims.active
       THEN {Fail(r, "UnauthorizedError", claims.claims.cause)}
       ELSE IF ~_can_switch_realm(target_realm)
       THEN {Fail(r, "PermissionDeniedError", "Realm switching not allowed")}
       ELSE LET user_id == claims.claims.sub
            IN IF user_id \notin DOMAIN us THEN {Fail(r, "AttributeError", "status")}
               ELSE IF us[user_id].status = "banned"
               THEN {Fail(r, "PermissionDeniedError", "User is banned")}
               ELSE {Res(Out("ok", "", NoDict,
                             _generate_token_pair(
                                 User_to_payload(us[user_id], user_id, target_realm, roles),
                                 session_id, t, jti)),
                         r)
                     : roles \in _give_roles(target_realm, user_id)}

\* login_user (POST /{realm}/auth/login): what the caller gets for an outcome
\* of authenticate; an exception the route does not catch is a 500
login_user(out) ==
    IF out.err = "ok" THEN [kind |-> "ok", status |-> 200, detail |-> ""]
    ELSE IF out.err \in {"InvalidCredentialsError", "NotEnabledError"}
    THEN [kind |-> out.err, status |-> 403, detail |-> out.msg]
    ELSE [kind |-> out.err, status |-> 500, detail |-> "Internal Server Error"]

\* logout_user (POST /{realm}/auth/logout)
logout_user(r, session_id) ==
    LET d == delete(r, SESSION_PREFIX, <<session_id>>)
    IN IF session_id = None THEN Fail(r, "HTTP401", "Session id is missing in cookies")
       ELSE IF ~d.deleted
       THEN Fail(d.redis, "HTTP401", "Session expired, maybe already logout")
       ELSE Res(Out("ok", "", NoDict, NoDict), d.redis)

(***************************************************************************)
(* core/utils.py and services.py: ClientAuthService                        *)
(***************************************************************************)
\* a word of a split string as a scope name; the empty word is ""
Word(w) == IF Len(w) = 1 THEN w[1] ELSE ""

\* format_scope: scope.split(" ") handed to validate_scopes, which rejects a
\* word that is not alphanumeric once its colons are removed
format_scope(scope) ==
    LET words == SplitSp(scope)
        scopes == [i \in 1..Len(words) |-> Word(words[i])]
    IN IF \E i \in 1..Len(scopes) : scopes[i] = "" THEN [ok |-> FALSE, v |-> <<>>]
       ELSE [ok |-> TRUE, v |-> scopes]

\* the permitted scopes the request names, in the order of the permitted list
validate_scopes_permitted_order(requested_scopes, client_scopes, strict_mode) ==
    LET RECURSIVE Keep(_)
        Keep(l) == IF l = <<>> THEN <<>>
                   ELSE IF \E i \in 1..Len(requested_scopes) : requested_scopes[i] = Head(l)
                   THEN <<Head(l)>> \o Keep(Tail(l))
                   ELSE Keep(Tail(l))
        valid_scopes == Keep(client_scopes)
    IN IF strict_mode /\ Range(requested_scopes) \ Range(valid_scopes) # {}
       THEN [null |-> TRUE, v |-> <<>>]
       ELSE [null |-> valid_scopes = <<>>, v |-> valid_scopes]

\* ClientAuthService._validate_scopes; null is the None it returns
_validate_scopes(requested_scopes, client_scopes, strict_mode) ==
    LET RECURSIVE Keep(_)
        Keep(l) == IF l = <<>> THEN <<>>
                   ELSE IF \E i \in 1..Len(client_scopes) : client_scopes[i] = Head(l)
                   THEN <<Head(l)>> \o Keep(Tail(l))
                   ELSE Keep(Tail(l))
        valid_scopes == Keep(requested_scopes)
    IN IF strict_mode /\ Range(requested_scopes) \ Range(valid_scopes) # {}
       THEN [null |-> TRUE, v |-> <<>>]
       ELSE [null |-> valid_scopes = <<>>, v |-> valid_scopes]

\* ClientAuthService.authenticate
client_authenticate(realm, grant_type, client_id, client_secret, scope, t, jti) ==
    LET client == get_by_client_id(realm, client_id)
        requested == format_scope(scope)
    IN IF grant_type # "client_credentials"
       THEN Out("UnsupportedGrantTypeError", "Unsupported grant type", NoDict, NoDict)
       ELSE IF ~client.found
       THEN Out("UnauthorizedError", "Client unauthorized in this realm", NoDict, NoDict)
       ELSE IF ~client.val.enabled
       THEN Out("NotEnabledError", "Client not enabled yet", NoDict, NoDict)
       ELSE IF ~verify_secret(client_secret, client.val.client_secret)
       THEN Out("InvalidCredentialsError", "Client credentials invalid", NoDict, NoDict)
       ELSE IF ~requested.ok
       THEN Out("ValueError", "Invalid scope format", NoDict, NoDict)
       ELSE IF _validate_scopes(requested.v, client.val.scopes, FALSE).null
       THEN Out("PermissionDeniedError", "Client permission denied", NoDict, NoDict)
       ELSE Out("ok", "", NoDict,
                [access_token |-> issue_token("access",
                                              Client_to_payload(client.val, client_id, realm),
                                              CLIENT_ACCESS_TOKEN_EXPIRE_IN, t, jti),
                 expires_at |-> expires_at(CLIENT_ACCESS_TOKEN_EXPIRE_IN, t)])

\* ClientAuthService.introspect
client_introspect(token, realm, t) ==
    LET d == decode_token(token, t)
        payload == d.payload
    IN IF ~d.ok
       THEN Out("UnauthorizedError", "Invalid token", NoDict, NoDict)
       ELSE IF "realm" \notin DOMAIN payload \/ payload.realm # realm
       THEN Out("UnauthorizedError", "Invalid token in this realm", NoDict, NoDict)
       ELSE IF "exp" \in DOMAIN payload /\ payload.exp < t
       THEN Out("ok", "", [active |-> FALSE, cause |-> "Token expired"], NoDict)
       ELSE Out("ok", "", ClientClaims(Update(payload, [active |-> TRUE])), NoDict)

(***************************************************************************)
(* providers: the OAuth callback flow                                      *)
(***************************************************************************)
IdentityProviders == {"yandex"}
ProviderNames == {"yandex", "vk"}
ProviderUserIds == {"p1", "p2"}
ProviderEmail(provider_user_id) == IF provider_user_id = "p1" THEN "u3@x.y" ELSE "u4@x.y"

\* Codes.generate
Codes(state) ==
    [state |-> state, code_verifier |-> <<"verifier", state>>,
     code_challenge |-> <<"S256", <<"verifier", state>>>>]

\* IdentityProviderRepository.get_by_name
get_by_name(name) == name \in IdentityProviders

\* UserRepository.get_by_provider
get_by_provider(ids, provider_user_id) ==
    LET hit == {i \in ids : i.provider_user_id = provider_user_id}
    IN IF hit = {} THEN [found |-> FALSE, id |-> None]
       ELSE [found |-> TRUE, id |-> (CHOOSE i \in hit : TRUE).user_id]

\* BaseStore.pop, its first await: get
pop_get(r, key) == get(r, CODES_PREFIX, key)

\* pop that returns the object and leaves it in the store
pop_keep(r, key) == r

\* BaseStore.pop, its second await: delete
pop_delete(r, key) == delete(r, CODES_PREFIX, key).redis

\* the rest of register / authenticate once the provider has answered:
\* the user row, the roles, the session and the pair
OAuthRes(out, r, us, ids) == [out |-> out, redis |-> r, users |-> us, identities |-> ids]

OAuthFail(r, us, ids, err, msg) == OAuthRes(Out(err, msg, NoDict, NoDict), r, us, ids)

oauth_session(r, us, ids, realm, user_id, t, sid, jti) ==
    {LET payload == User_to_payload(us[user_id], user_id, realm, roles)
         session == Session(sid, user_id, expires_at(SESSION_EXPIRE_IN, t), t)
     IN OAuthRes(Out("ok", "", NoDict,
                     _generate_token_pair(payload, session.session_id, t, jti)),
                 add(r, SESSION_PREFIX, <<session.session_id>>, session,
                     session.expires_at - t, t),
                 us, ids)
     : roles \in _give_roles(realm, user_id)}

\* BaseOAuthProvider.register after _get_userinfo
oauth_register(r, us, ids, realm, provider_user_id, t, sid, jti) ==
    LET email == ProviderEmail(provider_user_id)
        user_id == Cardinality(DOMAIN us) + 1
        us1 == [u \in DOMAIN us \cup {user_id} |->
                   IF u = user_id
                   THEN [email |-> email, password |-> NoPassword, status |-> "active"]
                   ELSE us[u]]
        ids1 == ids \cup {[user_id |-> user_id, provider_user_id |-> provider_user_id]}
    IN IF get_by_email(us, email).found \/ get_by_provider(ids, provider_user_id).found
       THEN {OAuthFail(r, us, ids, "AlreadyExistsError", "")}
       ELSE oauth_session(r, us1, ids1, realm, user_id, t, sid, jti)

\* YandexProvider.authenticate / VKProvider.authenticate after _get_userinfo
oauth_authenticate(r, us, ids, realm, provider_user_id, t, sid, jti) ==
    LET user == get_by_provider(ids, provider_user_id)
    IN IF ~user.found THEN {OAuthFail(r, us, ids, "BadRequestHTTPError", "User not found")}
       ELSE oauth_session(r, us, ids, realm, user.id, t, sid, jti)

(***************************************************************************)
(* The state machine.                                                      *)
(***************************************************************************)
NextJti == Cardinality(tokens) + 1
\* a session id that is not new: that of the session made last
NextSidOfLast == IF sessions_made = <<>> THEN Len(sessions_made) + 1 ELSE Len(sessions_made)
NextSid == Len(sessions_made) + 1
PairsIssued == Cardinality({tk \in tokens : tk.payload.token_type = "refresh"})
PairTokens(pair) == {pair.access_token, pair.refresh_token}
UserTokens == {tk \in tokens : "roles" \in DOMAIN tk.payload}
ClientTokens == {tk \in tokens : "scope" \in DOMAIN tk.payload}

\* what is kept of the call that returned last: its outcome and its arguments
ReturnAll(op, args, out) ==
    last' = [op |-> op, args |-> args, err |-> out.err, msg |-> out.msg,
             claims |-> Restrict(out.claims, {"active", "cause"}),
             result |-> out.result]

\* the same, the arguments kept only when the call returned normally
Return(op, args, out) == ReturnAll(op, IF out.err = "ok" THEN args ELSE NoDict, out)

\* a call as the state machine sees it: the arguments of a call that returned
\* normally, the outcome, and the key space it leaves
Call(args, res) ==
    [args |-> IF res.out.err = "ok" THEN args ELSE NoDict, out |-> res.out,
     redis |-> res.redis]

\* the tokens a call has signed
Issued(out) ==
    IF out.err # "ok" THEN {}
    ELSE IF "refresh_token" \in DOMAIN out.result THEN PairTokens(out.result)
    ELSE {out.result.access_token}

\* inputs
Garbage == [signed |-> FALSE, payload |-> NoDict]
Handlers == {"h1", "h2"}
Idle == [pc |-> "idle"]
LoginRealms == {"acme", "beta"}
UnknownRealm == "nowhere"
TargetRealms == RealmSlugs \cup {UnknownRealm}
Emails == {"u1@x.y", "u2@x.y", "u3@x.y", "u5@x.y", "nobody@x.y"}
Passwords == {"pw1", "pw2", "bad"}
UnknownSid == MaxPairs + 1
SessionIds == (0..Len(sessions_made)) \cup {UnknownSid}
UnknownState == MaxStates + 1
States == (1..n_states) \cup {UnknownState}
GrantTypes == {"client_credentials", "password"}
ClientIds == {"svc_a", "svc_off", "svc_g", "nobody"}
Secrets == {"S", "bad"}
ScopeStrings ==
    {JoinSp(l) : l \in {<<"api:read">>, <<"api:read", "api:write">>, <<"api:admin">>,
                        <<"api:admin", "api:write">>, <<>>}}

Init ==
    /\ now = 0
    /\ ticks = 0
    /\ redis = <<>>
    /\ users = InitUsers
    /\ identities = InitIdentities
    /\ user_groups = UserGroups
    /\ tokens = {}
    /\ sessions_made = <<>>
    /\ n_states = 0
    /\ handlers = [h \in Handlers |-> Idle]
    /\ logouts = {}
    /\ consumed = {}
    /\ last = [op |-> "init", args |-> NoDict, err |-> "ok", msg |-> "",
               claims |-> NoDict, result |-> NoDict]

\* POST /{realm}/auth/login
LoginCallsIn(realms) ==
    UNION {{Call([realm |-> realm, email |-> email], res)
            : res \in authenticate(redis, users, realm, email, password, now, NextSid,
                                   NextJti)}
           : realm \in realms, email \in Emails, password \in Passwords}

LoginCalls == LoginCallsIn(LoginRealms)

UserLoginIn(realms) ==
    /\ \E c \in LoginCallsIn(realms) :
         /\ c.out.err = "ok" => PairsIssued < MaxPairs
         /\ redis' = c.redis
         /\ tokens' = tokens \cup Issued(c.out)
         /\ sessions_made' = IF c.out.err = "ok" THEN Append(sessions_made, "login")
                             ELSE sessions_made
         /\ ReturnAll("login", c.args, c.out)
    /\ UNCHANGED <<now, ticks, users, identities, user_groups, n_states, handlers,
                   logouts, consumed>>

UserLogin == UserLoginIn(LoginRealms)

\* POST /{realm}/auth/introspect
IntrospectCalls ==
    {Call([realm |-> realm, session_id |-> session_id],
          Res(introspect(redis, token, realm, session_id, now), redis))
     : token \in UserTokens \cup {Garbage}, realm \in LoginRealms,
       session_id \in SessionIds}

UserIntrospect ==
    /\ \E c \in IntrospectCalls : ReturnAll("introspect_user", c.args, c.out)
    /\ UNCHANGED <<now, ticks, redis, users, identities, user_groups, tokens,
                   sessions_made, n_states, handlers, logouts, consumed>>

\* POST /{realm}/auth/refresh
RefreshCalls ==
    UNION {{Call([token |-> token, realm |-> realm, session_id |-> session_id], res)
            : res \in refresh(redis, token, realm, session_id, now, NextJti)}
           : token \in UserTokens \cup {Garbage}, realm \in LoginRealms,
             session_id \in SessionIds}

UserRefresh ==
    /\ \E c \in RefreshCalls :
         /\ c.out.err = "ok" => PairsIssued < MaxPairs
         /\ redis' = c.redis
         /\ tokens' = tokens \cup Issued(c.out)
         /\ ReturnAll("refresh", c.args, c.out)
    /\ UNCHANGED <<now, ticks, users, identities, user_groups, sessions_made, n_states,
                   handlers, logouts, consumed>>

\* POST /{realm}/auth/switch-realm
SwitchRealmCalls ==
    UNION {{Call([token |-> token, current_realm |-> current_realm,
                  target_realm |-> target_realm, session_id |-> session_id], res)
            : res \in switch_realm(redis, users, current_realm, target_realm, token,
                                   session_id, now, NextJti)}
           : token \in UserTokens \cup {Garbage}, current_realm \in LoginRealms,
             target_realm \in TargetRealms, session_id \in SessionIds}

UserSwitchRealm ==
    /\ \E c \in SwitchRealmCalls :
         /\ c.out.err = "ok" => PairsIssued < MaxPairs
         /\ redis' = c.redis
         /\ tokens' = tokens \cup Issued(c.out)
         /\ ReturnAll("switch_realm", c.args, c.out)
    /\ UNCHANGED <<now, ticks, users, identities, user_groups, sessions_made, n_states,
                   handlers, logouts, consumed>>

\* POST /{realm}/auth/logout
UserLogout ==
    /\ \E session_id \in SessionIds :
         LET res == logout_user(redis, session_id)
         IN /\ redis' = res.redis
            /\ logouts' = IF session_id = None THEN logouts ELSE logouts \cup {session_id}
            /\ Return("logout", [session_id |-> session_id], res.out)
    /\ UNCHANGED <<now, ticks, users, identities, user_groups, tokens, sessions_made,
                   n_states, handlers, consumed>>

\* the clock advances by d seconds; Redis drops the keys whose expiry passed
Tick(d) ==
    /\ ticks < MaxTicks
    /\ now' = now + d
    /\ ticks' = ticks + 1
    /\ redis' = RedisPurge(redis, now + d)
    /\ Return("tick", NoDict, Out("ok", "", NoDict, NoDict))

ClockUser ==
    /\ \E d \in {ShortStep, LongStep} : Tick(d)
    /\ UNCHANGED <<users, identities, user_groups, tokens, sessions_made, n_states,
                   handlers, logouts, consumed>>

Next ==
    \/ UserLogin
    \/ UserIntrospect
    \/ UserRefresh
    \/ UserSwitchRealm
    \/ UserLogout
    \/ ClockUser

Spec == Init /\ [][Next]_vars

(***************************************************************************)
(* Client credentials: token issuance and both introspections.             *)
(***************************************************************************)
\* POST /{realm}/clients/token
ClientAuthenticateCallsIn(realms) ==
    {Call([realm |-> realm, client_id |-> client_id, scope |-> scope],
          Res(client_authenticate(realm, grant_type, client_id, client_secret, scope,
                                  now, NextJti), redis))
     : realm \in realms, grant_type \in GrantTypes, client_id \in ClientIds,
       client_secret \in Secrets, scope \in ScopeStrings}

ClientAuthenticateCalls == ClientAuthenticateCallsIn(LoginRealms)

ClientAuthenticateIn(realms) ==
    /\ \E c \in ClientAuthenticateCallsIn(realms) :
         /\ c.out.err = "ok" => Cardinality(ClientTokens) < MaxClientTokens
         /\ tokens' = tokens \cup Issued(c.out)
         /\ ReturnAll("authenticate_client", c.args, c.out)
    /\ UNCHANGED <<now, ticks, redis, users, identities, user_groups, sessions_made,
                   n_states, handlers, logouts, consumed>>

ClientAuthenticate == ClientAuthenticateIn(LoginRealms)

\* POST /{realm}/clients/introspect
ClientIntrospectCalls ==
    {Call([realm |-> realm], Res(client_introspect(token, realm, now), redis))
     : token \in tokens \cup {Garbage}, realm \in LoginRealms}

ClientIntrospect ==
    /\ \E c \in ClientIntrospectCalls : ReturnAll("introspect_client", c.args, c.out)
    /\ UNCHANGED <<now, ticks, redis, users, identities, user_groups, tokens,
                   sessions_made, n_states, handlers, logouts, consumed>>

ClockClient ==
    /\ Tick(ClientStep)
    /\ UNCHANGED <<users, identities, user_groups, tokens, sessions_made, n_states,
                   handlers, logouts, consumed>>

NextClient ==
    \/ ClientAuthenticate
    \/ ClientIntrospect
    \/ UserLogin
    \/ UserIntrospect
    \/ ClockClient

SpecClient == Init /\ [][NextClient]_vars

(***************************************************************************)
(* The OAuth callback flow.  A handler is a coroutine: between two of its  *)
(* awaits the event loop may run the other handler.                        *)
(***************************************************************************)
\* GET /{realm}/oauth/{provider}/url: generate_url
GenerateUrl ==
    /\ n_states < MaxStates
    /\ n_states' = n_states + 1
    /\ redis' = add(redis, CODES_PREFIX, <<n_states + 1>>, Codes(n_states + 1),
                    CODES_TTL, now)
    /\ ReturnAll("generate_url", [state |-> n_states + 1], Out("ok", "", NoDict, NoDict))
    /\ UNCHANGED <<now, ticks, users, identities, user_groups, tokens, sessions_made,
                   handlers, logouts, consumed>>

\* a callback arrives: register looks the provider up, then both flows enter
\* _handle_callback; late tells that the pop of an earlier callback with this
\* state had completed by then
CallbackBegin(h) ==
    /\ handlers[h].pc = "idle"
    /\ \E kind \in {"oauth_register", "oauth_authenticate"}, name \in ProviderNames,
          realm \in {"acme"}, state \in States :
         IF kind = "oauth_register" /\ ~get_by_name(name)
         THEN /\ ReturnAll(kind, [state |-> state, exchange |-> FALSE, late |-> FALSE],
                           Out("NotFoundHTTPError", "Provider not found", NoDict, NoDict))
              /\ UNCHANGED handlers
         ELSE /\ handlers' = [handlers EXCEPT ![h] =
                                 [pc |-> "pop_get", kind |-> kind, realm |-> realm,
                                  state |-> state, late |-> state \in consumed,
                                  codes |-> NoDict]]
              /\ UNCHANGED last
    /\ UNCHANGED <<now, ticks, redis, users, identities, user_groups, tokens,
                   sessions_made, n_states, logouts, consumed>>

\* codes_store.pop, first await; a missing entry ends the callback
PopGet(h) ==
    /\ handlers[h].pc = "pop_get"
    /\ LET hd == handlers[h]
           schema == pop_get(redis, <<hd.state>>)
       IN IF ~schema.found
          THEN /\ handlers' = [handlers EXCEPT ![h] = Idle]
               /\ ReturnAll(hd.kind,
                            [state |-> hd.state, exchange |-> TRUE, late |-> hd.late],
                            Out("BadRequestHTTPError", "", NoDict, NoDict))
          ELSE /\ handlers' = [handlers EXCEPT ![h].pc = "pop_delete",
                                               ![h].codes = schema.val]
               /\ UNCHANGED last
    /\ UNCHANGED <<now, ticks, redis, users, identities, user_groups, tokens,
                   sessions_made, n_states, logouts, consumed>>

\* codes_store.pop, second await
PopDelete(h) ==
    /\ handlers[h].pc = "pop_delete"
    /\ redis' = pop_delete(redis, <<handlers[h].state>>)
    /\ consumed' = consumed \cup {handlers[h].state}
    /\ handlers' = [handlers EXCEPT ![h].pc = "exchange"]
    /\ UNCHANGED <<now, ticks, users, identities, user_groups, tokens, sessions_made,
                   n_states, logouts, last>>

\* an exchange that puts the state back when the provider has failed
ExchangeCallsGivingBack(hd) ==
    {OAuthFail(add(redis, CODES_PREFIX, <<hd.state>>, hd.codes, CODES_TTL, now), users,
               identities, "NotFoundHTTPError", "")}
    \cup UNION {IF hd.kind = "oauth_register"
                THEN oauth_register(redis, users, identities, hd.realm, p, now, NextSid,
                                    NextJti)
                ELSE oauth_authenticate(redis, users, identities, hd.realm, p, now,
                                        NextSid, NextJti)
                : p \in ProviderUserIds}

\* the provider answers the token and userinfo requests (valid_answer turns a
\* status other than 200 into NotFoundHTTPError); the flow then runs to its end
ExchangeCalls(hd) ==
    {OAuthFail(redis, users, identities, "NotFoundHTTPError", "")}
    \cup UNION {IF hd.kind = "oauth_register"
                THEN oauth_register(redis, users, identities, hd.realm, p, now, NextSid,
                                    NextJti)
                ELSE oauth_authenticate(redis, users, identities, hd.realm, p, now,
                                        NextSid, NextJti)
                : p \in ProviderUserIds}

Exchange(h) ==
    /\ handlers[h].pc = "exchange"
    /\ \E c \in ExchangeCalls(handlers[h]) :
         /\ c.out.err = "ok" => PairsIssued < MaxPairs
         /\ redis' = c.redis
         /\ users' = c.users
         /\ identities' = c.identities
         /\ tokens' = tokens \cup Issued(c.out)
         /\ sessions_made' = IF c.out.err = "ok"
                             THEN Append(sessions_made, handlers[h].kind)
                             ELSE sessions_made
         /\ ReturnAll(handlers[h].kind,
                      [state |-> handlers[h].state, exchange |-> TRUE,
                       late |-> handlers[h].late], c.out)
    /\ handlers' = [handlers EXCEPT ![h] = Idle]
    /\ UNCHANGED <<now, ticks, user_groups, n_states, logouts, consumed>>

ClockOAuth ==
    /\ Tick(CodesStep)
    /\ UNCHANGED <<users, identities, user_groups, tokens, sessions_made, n_states,
                   handlers, logouts, consumed>>

NextOAuth ==
    \/ GenerateUrl
    \/ \E h \in Handlers : CallbackBegin(h)
    \/ \E h \in Handlers : PopGet(h)
    \/ \E h \in Handlers : PopDelete(h)
    \/ \E h \in Handlers : Exchange(h)
    \/ ClockOAuth

SpecOAuth == Init /\ [][NextOAuth]_vars

(***************************************************************************)
(* Every flow that issues a token pair.                                    *)
(***************************************************************************)
NextPairs ==
    \/ UserLogin
    \/ UserRefresh
    \/ UserSwitchRealm
    \/ GenerateUrl
    \/ \E h \in {"h1"} : CallbackBegin(h) \/ PopGet(h) \/ PopDelete(h) \/ Exchange(h)
    \/ ClockClient

SpecPairs == Init /\ [][NextPairs]_vars

(***************************************************************************)
(* Every flow that creates, reads, extends or ends a session.              *)
(***************************************************************************)
\* POST /{realm}/auth/logout, the ids handed to it not recorded
SessionLogout ==
    /\ \E session_id \in SessionIds :
         LET res == logout_user(redis, session_id)
         IN /\ redis' = res.redis
            /\ Return("logout", [session_id |-> session_id], res.out)
    /\ UNCHANGED <<now, ticks, users, identities, user_groups, tokens, sessions_made,
                   n_states, handlers, logouts, consumed>>

NextSessions ==
    \/ UserLogin
    \/ UserRefresh
    \/ UserSwitchRealm
    \/ SessionLogout
    \/ GenerateUrl
    \/ \E h \in {"h1"} : CallbackBegin(h) \/ PopGet(h) \/ PopDelete(h) \/ Exchange(h)
    \/ ClockClient

SpecSessions == Init /\ [][NextSessions]_vars

(***************************************************************************)
(* The flows that issue a pair, next to an administrator who bans or       *)
(* deletes users.                                                          *)
(***************************************************************************)
\* PATCH /admin/users/{id}: an active user is banned or deleted
UpdateUser ==
    /\ \E id \in DOMAIN users, status \in {"banned", "deleted"} :
         /\ users[id].status = "active"
         /\ users' = [users EXCEPT ![id].status = status]
         /\ Return("update_user", [id |-> id, status |-> status],
                   Out("ok", "", NoDict, NoDict))
    /\ UNCHANGED <<now, ticks, redis, identities, user_groups, tokens, sessions_made,
                   n_states, handlers, logouts, consumed>>

NextStatus ==
    \/ UserLogin
    \/ UserRefresh
    \/ UserSwitchRealm
    \/ UpdateUser
    \/ GenerateUrl
    \/ \E h \in {"h1"} : CallbackBegin(h) \/ PopGet(h) \/ PopDelete(h) \/ Exchange(h)

SpecStatus == Init /\ [][NextStatus]_vars

(***************************************************************************)
(* POST /registration, await by await: CRUDRepository.create executes the  *)
(* INSERT and then commits.  IntegrityError, the one error create turns    *)
(* into AlreadyExistsError, needs a unique column: users has its id only,  *)
(* a uuid4 drawn for the row.                                              *)
(***************************************************************************)
SignupEmails == {"u1@x.y", "new@x.y"}

\* register_user: the body is validated and the password hashed
SignupBegin(h) ==
    /\ handlers[h] = Idle
    /\ Cardinality(DOMAIN users)
          + Cardinality({g \in Handlers : handlers[g] # Idle}) < MaxUsers
    /\ \E email \in SignupEmails :
         handlers' = [handlers EXCEPT ![h] =
                         [pc |-> "execute", kind |-> "signup",
                          user |-> [email |-> email, password |-> hash_secret("pw1"),
                                    status |-> "registered"]]]
    /\ UNCHANGED <<now, ticks, redis, users, identities, user_groups, tokens,
                   sessions_made, n_states, logouts, consumed, last>>

\* session.execute(insert(...).returning(...)): the row is in the handler's
\* transaction, or the statement fails and create raises CreationError
SignupExecute(h) ==
    /\ handlers[h].pc = "execute"
    /\ \/ /\ handlers' = [handlers EXCEPT ![h].pc = "commit"]
          /\ UNCHANGED last
       \/ /\ handlers' = [handlers EXCEPT ![h] = Idle]
          /\ ReturnAll("register_user", [email |-> handlers[h].user.email],
                       Out("CreationError", "", NoDict, NoDict))
    /\ UNCHANGED <<now, ticks, redis, users, identities, user_groups, tokens,
                   sessions_made, n_states, logouts, consumed>>

\* session.commit(): the row is in the table and the user is returned
SignupCommit(h) ==
    /\ handlers[h].pc = "commit"
    /\ LET id == Cardinality(DOMAIN users) + 1
       IN /\ users' = [u \in DOMAIN users \cup {id} |->
                          IF u = id THEN handlers[h].user ELSE users[u]]
          /\ ReturnAll("register_user", [email |-> handlers[h].user.email],
                       Out("ok", "", NoDict, [id |-> id, email |-> handlers[h].user.email]))
    /\ handlers' = [handlers EXCEPT ![h] = Idle]
    /\ UNCHANGED <<now, ticks, redis, identities, user_groups, tokens, sessions_made,
                   n_states, logouts, consumed>>

NextSignup ==
    \/ \E h \in Handlers : SignupBegin(h)
    \/ \E h \in Handlers : SignupExecute(h)
    \/ \E h \in Handlers : SignupCommit(h)

SpecSignup == Init /\ [][NextSignup]_vars

(***************************************************************************)
(* A refresh as the coroutine it is, next to a logout of its session.      *)
(***************************************************************************)
\* refresh up to its first await: the session is read
RefreshBegin(h) ==
    /\ handlers[h].pc = "idle"
    /\ \E token \in UserTokens \cup {Garbage}, realm \in LoginRealms,
          session_id \in SessionIds :
         LET key == build_key(SESSION_PREFIX, <<session_id>>)
             session == get(redis, SESSION_PREFIX, key)
         IN IF ~session.found
            THEN /\ ReturnAll("refresh", NoDict,
                              Out("UnauthorizedError", "Session not found or expired",
                                  NoDict, NoDict))
                 /\ UNCHANGED handlers
            ELSE /\ handlers' = [handlers EXCEPT ![h] =
                                    [pc |-> "refresh_read", token |-> token,
                                     realm |-> realm, session_id |-> session_id,
                                     session |-> session.val]]
                 /\ UNCHANGED last
    /\ UNCHANGED <<now, ticks, redis, users, identities, user_groups, tokens,
                   sessions_made, n_states, logouts, consumed>>

\* the rest of refresh: introspect, the roles, refresh_ttl, the new pair
RefreshFinish(h) ==
    /\ handlers[h].pc = "refresh_read"
    /\ LET hd == handlers[h]
       IN \E res \in refresh_resume(redis, hd.session, hd.token, hd.realm,
                                    hd.session_id, now, NextJti) :
            /\ res.out.err = "ok" => PairsIssued < MaxPairs
            /\ redis' = res.redis
            /\ tokens' = tokens \cup Issued(res.out)
            /\ ReturnAll("refresh",
                         [token |-> hd.token, realm |-> hd.realm,
                          session_id |-> hd.session_id], res.out)
    /\ handlers' = [handlers EXCEPT ![h] = Idle]
    /\ UNCHANGED <<now, ticks, users, identities, user_groups, sessions_made, n_states,
                   logouts, consumed>>

\* POST /{realm}/auth/logout with the session id of a refresh in flight
LogoutInFlight(h) ==
    /\ handlers[h].pc = "refresh_read"
    /\ LET session_id == handlers[h].session_id
           res == logout_user(redis, session_id)
       IN /\ redis' = res.redis
          /\ logouts' = logouts \cup {session_id}
          /\ ReturnAll("logout", [session_id |-> session_id], res.out)
    /\ UNCHANGED <<now, ticks, users, identities, user_groups, tokens, sessions_made,
                   n_states, handlers, consumed>>

NextInFlight ==
    \/ UserLogin
    \/ \E h \in {"h1"} : RefreshBegin(h) \/ RefreshFinish(h) \/ LogoutInFlight(h)
    \/ ClockClient

SpecInFlight == Init /\ [][NextInFlight]_vars

(***************************************************************************)
(* Two users who can both log in with a password.                          *)
(***************************************************************************)
\* the users of Init, user 2 active
TwoActiveUsers == [InitUsers EXCEPT ![2].status = "active"]

InitTwoUsers ==
    /\ now = 0
    /\ ticks = 0
    /\ redis = <<>>
    /\ users = TwoActiveUsers
    /\ identities = InitIdentities
    /\ user_groups = UserGroups
    /\ tokens = {}
    /\ sessions_made = <<>>
    /\ n_states = 0
    /\ handlers = [h \in Handlers |-> Idle]
    /\ logouts = {}
    /\ consumed = {}
    /\ last = [op |-> "init", args |-> NoDict, err |-> "ok", msg |-> "",
               claims |-> NoDict, result |-> NoDict]

NextTwoUsers ==
    \/ UserLogin
    \/ UserIntrospect
    \/ UserRefresh
    \/ UserSwitchRealm
    \/ ClockClient

SpecTwoUsers == InitTwoUsers /\ [][NextTwoUsers]_vars

(***************************************************************************)
(* Login and refresh next to an administrator who deletes groups.          *)
(***************************************************************************)
\* DELETE /admin/groups/{id}: the group goes, and its memberships with it
DeleteGroup ==
    /\ \E id \in DOMAIN Groups :
         /\ \E m \in user_groups : m[2] = id
         /\ user_groups' = {m \in user_groups : m[2] # id}
         /\ Return("delete_group", [id |-> id], Out("ok", "", NoDict, NoDict))
    /\ UNCHANGED <<now, ticks, redis, users, identities, tokens, sessions_made,
                   n_states, handlers, logouts, consumed>>

NextGroups ==
    \/ UserLogin
    \/ UserRefresh
    \/ DeleteGroup
    \/ ClockClient

SpecGroups == Init /\ [][NextGroups]_vars

(***************************************************************************)
(* Tokens signed for users and for clients side by side.                   *)
(***************************************************************************)
NextTokens ==
    \/ UserLogin
    \/ UserRefresh
    \/ ClientAuthenticate
    \/ ClockClient

SpecTokens == Init /\ [][NextTokens]_vars

(***************************************************************************)
(* _validate_scopes on its own: every input up to MaxScopes, then the call *)
(***************************************************************************)
ScopeLists == UNION {[1..n -> Scopes] : n \in 0..MaxScopes}

InitScopes ==
    /\ now = 0
    /\ ticks = 0
    /\ redis = <<>>
    /\ users = InitUsers
    /\ identities = InitIdentities
    /\ user_groups = UserGroups
    /\ tokens = {}
    /\ sessions_made = <<>>
    /\ n_states = 0
    /\ handlers = [h \in Handlers |-> Idle]
    /\ logouts = {}
    /\ consumed = {}
    /\ \E requested_scopes \in ScopeLists, client_scopes \in ScopeLists,
          strict_mode \in BOOLEAN :
         last = [op |-> "call", args |-> [requested_scopes |-> requested_scopes,
                                          client_scopes |-> client_scopes,
                                          strict_mode |-> strict_mode],
                 err |-> "ok", msg |-> "", claims |-> NoDict, result |-> NoDict]

ValidateScopes ==
    /\ last.op = "call"
    /\ last' = [last EXCEPT !.op = "_validate_scopes",
                            !.result = _validate_scopes(last.args.requested_scopes,
                                                        last.args.client_scopes,
                                                        last.args.strict_mode)]
    /\ UNCHANGED <<now, ticks, redis, users, identities, user_groups, tokens,
                   sessions_made, n_states, handlers, logouts, consumed>>

NextScopes == ValidateScopes

SpecScopes == InitScopes /\ [][NextScopes]_vars

(***************************************************************************)
(* Authentication on its own: every realm slug a request can name, and a   *)
(* user table with a deleted account.                                      *)
(***************************************************************************)
InitLogin ==
    /\ now = 0
    /\ ticks = 0
    /\ redis = <<>>
    /\ users = LoginUsers
    /\ identities = InitIdentities
    /\ user_groups = UserGroups
    /\ tokens = {}
    /\ sessions_made = <<>>
    /\ n_states = 0
    /\ handlers = [h \in Handlers |-> Idle]
    /\ logouts = {}
    /\ consumed = {}
    /\ last = [op |-> "init", args |-> NoDict, err |-> "ok", msg |-> "",
               claims |-> NoDict, result |-> NoDict]

UserLoginAnywhere == UserLoginIn(TargetRealms)

ClientAuthenticateAnywhere == ClientAuthenticateIn(TargetRealms)

NextLogin ==
    \/ UserLoginAnywhere
    \/ ClientAuthenticateAnywhere

SpecLogin == InitLogin /\ [][NextLogin]_vars

(***************************************************************************)
(* OAuth registration step by step, from the answer of the provider on.    *)
(* Each await of register is a step of the handler; a repository call or   *)
(* the session store may fail at its step, which ends the handler with the *)
(* exception.  effects lists the side effects of the handler in the order  *)
(* they happened.                                                          *)
(***************************************************************************)
\* register with the session stored before the identity is created
register_steps_session_first ==
    <<"create_user", "give_roles", "add_session", "create_identity", "issue">>

\* the awaits of register after _get_userinfo, in program order
register_steps == <<"create_user", "create_identity", "give_roles", "add_session", "issue">>

StepAfter(pc) ==
    LET i == CHOOSE j \in 1..Len(register_steps) : register_steps[j] = pc
    IN register_steps[i + 1]

\* what the caller of register gets
RegisterReturn(h, out) ==
    /\ ReturnAll("register",
                 [provider_user_id |-> handlers[h].provider_user_id,
                  effects |-> IF out.err = "ok"
                              THEN Append(handlers[h].effects, "tokens")
                              ELSE handlers[h].effects],
                 out)
    /\ handlers' = [handlers EXCEPT ![h] = Idle]

\* the provider has answered with the identity of the user
RegisterBegin(h) ==
    /\ handlers[h].pc = "idle"
    /\ \E realm \in LoginRealms, p \in ProviderUserIds :
         handlers' = [handlers EXCEPT ![h] =
                         [pc |-> register_steps[1], kind |-> "register", realm |-> realm,
                          provider_user_id |-> p, user_id |-> None, roles |-> <<>>,
                          session_id |-> None, effects |-> <<>>]]
    /\ UNCHANGED <<now, ticks, redis, users, identities, user_groups, tokens,
                   sessions_made, n_states, logouts, consumed, last>>

\* user_repository.create(User(email, ACTIVE)): an INSERT into users, a table
\* whose only unique column is the id
CreateUser(h) ==
    /\ handlers[h].pc = "create_user"
    /\ LET email == ProviderEmail(handlers[h].provider_user_id)
           user_id == Cardinality(DOMAIN users) + 1
       IN \/ /\ RegisterReturn(h, Out("CreationError", "", NoDict, NoDict))
             /\ UNCHANGED users
          \/ /\ Cardinality(DOMAIN users) < MaxUsers
             /\ users' = [u \in DOMAIN users \cup {user_id} |->
                             IF u = user_id
                             THEN [email |-> email, password |-> NoPassword,
                                   status |-> "active"]
                             ELSE users[u]]
             /\ handlers' = [handlers EXCEPT ![h].pc = StepAfter("create_user"),
                                             ![h].user_id = user_id,
                                             ![h].effects = Append(@, "user")]
             /\ UNCHANGED last
    /\ UNCHANGED <<now, ticks, redis, identities, user_groups, tokens, sessions_made,
                   n_states, logouts, consumed>>

\* user_identity_repository.create(user_data)
CreateIdentity(h) ==
    /\ handlers[h].pc = "create_identity"
    /\ LET p == handlers[h].provider_user_id
       IN \/ /\ get_by_provider(identities, p).found
             /\ RegisterReturn(h, Out("AlreadyExistsError", "", NoDict, NoDict))
             /\ UNCHANGED identities
          \/ /\ RegisterReturn(h, Out("CreationError", "", NoDict, NoDict))
             /\ UNCHANGED identities
          \/ /\ ~get_by_provider(identities, p).found
             /\ identities' = identities \cup {[user_id |-> handlers[h].user_id,
                                                 provider_user_id |-> p]}
             /\ handlers' = [handlers EXCEPT ![h].pc = StepAfter("create_identity"),
                                             ![h].effects = Append(@, "identity")]
             /\ UNCHANGED last
    /\ UNCHANGED <<now, ticks, redis, users, user_groups, tokens, sessions_made,
                   n_states, logouts, consumed>>

\* _give_roles: a read of the group repository
ResolveRoles(h) ==
    /\ handlers[h].pc = "give_roles"
    /\ \/ RegisterReturn(h, Out("ReadingError", "", NoDict, NoDict))
       \/ /\ \E roles \in _give_roles(handlers[h].realm, handlers[h].user_id) :
               handlers' = [handlers EXCEPT ![h].pc = StepAfter("give_roles"),
                                            ![h].roles = roles]
          /\ UNCHANGED last
    /\ UNCHANGED <<now, ticks, redis, users, identities, user_groups, tokens,
                   sessions_made, n_states, logouts, consumed>>

\* Session(user_id, expires_at) and session_store.add
AddSession(h) ==
    /\ handlers[h].pc = "add_session"
    /\ \/ /\ RegisterReturn(h, Out("ConnectionError", "", NoDict, NoDict))
          /\ UNCHANGED <<redis, user_groups, sessions_made>>
       \/ LET session == Session(NextSid, handlers[h].user_id,
                                 expires_at(SESSION_EXPIRE_IN, now), now)
          IN /\ redis' = add(redis, SESSION_PREFIX, <<session.session_id>>, session,
                             session.expires_at - now, now)
             /\ sessions_made' = Append(sessions_made, "register")
             /\ handlers' = [handlers EXCEPT ![h].pc = StepAfter("add_session"),
                                             ![h].session_id = session.session_id,
                                             ![h].effects = Append(@, "session")]
             /\ UNCHANGED last
    /\ UNCHANGED <<now, ticks, users, identities, user_groups, tokens, n_states,
                   logouts, consumed>>

\* _generate_token_pair on the payload of the user: the pair is returned
IssuePair(h) ==
    /\ handlers[h].pc = "issue"
    /\ LET user_id == handlers[h].user_id
           payload == User_to_payload(users[user_id], user_id, handlers[h].realm,
                                      handlers[h].roles)
           out == Out("ok", "", NoDict,
                      _generate_token_pair(payload, handlers[h].session_id, now, NextJti))
       IN /\ tokens' = tokens \cup Issued(out)
          /\ RegisterReturn(h, out)
    /\ UNCHANGED <<now, ticks, redis, users, identities, user_groups, sessions_made,
                   n_states, logouts, consumed>>

NextRegister ==
    \/ \E h \in Handlers : RegisterBegin(h)
    \/ \E h \in Handlers : CreateUser(h)
    \/ \E h \in Handlers : CreateIdentity(h)
    \/ \E h \in Handlers : ResolveRoles(h)
    \/ \E h \in Handlers : AddSession(h)
    \/ \E h \in Handlers : IssuePair(h)

SpecRegister == Init /\ [][NextRegister]_vars

(***************************************************************************)
(* The roles claim on its own: every group membership up to MaxGroups      *)
(* groups of up to MaxGroupRoles roles, the resolver, then issuance and    *)
(* introspection of the token.                                             *)
(***************************************************************************)
RoleLists == UNION {[1..n -> Role] : n \in 0..MaxGroupRoles}

RECURSIVE SubsetsUpTo(_, _)
SubsetsUpTo(S, n) ==
    IF n = 0 THEN {{}}
    ELSE LET P == SubsetsUpTo(S, n - 1) IN P \cup {p \cup {x} : p \in P, x \in S}

InitRoles ==
    /\ now = 0
    /\ ticks = 0
    /\ redis = <<>>
    /\ users = InitUsers
    /\ identities = InitIdentities
    /\ user_groups = UserGroups
    /\ tokens = {}
    /\ sessions_made = <<>>
    /\ n_states = 0
    /\ handlers = [h \in Handlers |-> Idle]
    /\ logouts = {}
    /\ consumed = {}
    /\ \E groups \in SubsetsUpTo(RoleLists, MaxGroups) :
         last = [op |-> "get_by_user", args |-> [groups |-> groups],
                 err |-> "ok", msg |-> "", claims |-> NoDict, result |-> NoDict]

\* the resolver lists the roles of the groups
GiveRoles ==
    /\ last.op = "get_by_user"
    /\ \E roles \in give_roles_of(last.args.groups) :
         last' = [last EXCEPT !.op = "_give_roles",
                              !.args = [groups |-> last.args.groups, roles |-> roles]]
    /\ UNCHANGED <<now, ticks, redis, users, identities, user_groups, tokens,
                   sessions_made, n_states, handlers, logouts, consumed>>

\* an access token is signed from the payload with these roles and handed to
\* introspect (the session lookup passed)
IntrospectRoles ==
    /\ last.op = "_give_roles"
    /\ LET payload == User_to_payload(users[1], 1, "acme", last.args.roles)
           token == issue_token("access", payload, USER_ACCESS_TOKEN_EXPIRE_IN, now, 1)
           out == introspect_claims(token, "acme", now)
       IN last' = [op |-> "introspect_roles", args |-> last.args, err |-> out.err,
                   msg |-> out.msg, claims |-> out.claims, result |-> NoDict]
    /\ UNCHANGED <<now, ticks, redis, users, identities, user_groups, tokens,
                   sessions_made, n_states, handlers, logouts, consumed>>

NextRoles ==
    \/ GiveRoles
    \/ IntrospectRoles

SpecRoles == InitRoles /\ [][NextRoles]_vars

(***************************************************************************)
(* The session store on its own: every operation of RedisStore, on a key   *)
(* and on the key that is this key behind the store's prefix.              *)
(***************************************************************************)
StoreKeys == {<<1>>, <<SESSION_PREFIX, 1>>}
StoreValues == {Session(1, user_id, SESSION_EXPIRE_IN, 0) : user_id \in {1, 2}}
\* none, already past, and two that the clock of this specification tells apart
StoreTtls == {0, 0 - CodesStep, CodesStep, CODES_TTL}

StoreAdd ==
    /\ \E key \in StoreKeys, schema \in StoreValues, ttl \in StoreTtls :
         /\ redis' = add(redis, SESSION_PREFIX, key, schema, ttl, now)
         /\ Return("add", [key |-> key, ttl |-> ttl], Out("ok", "", NoDict, NoDict))
    /\ UNCHANGED <<now, ticks, users, identities, user_groups, tokens, sessions_made,
                   n_states, handlers, logouts, consumed>>

StoreGet ==
    /\ \E key \in StoreKeys :
         Return("get", [key |-> key], Out("ok", "", NoDict, get(redis, SESSION_PREFIX, key)))
    /\ UNCHANGED <<now, ticks, redis, users, identities, user_groups, tokens,
                   sessions_made, n_states, handlers, logouts, consumed>>

StoreRefreshTtl ==
    /\ \E key \in StoreKeys, ttl \in StoreTtls :
         LET res == refresh_ttl(redis, SESSION_PREFIX, key, ttl, now)
         IN /\ redis' = res.redis
            /\ Return("refresh_ttl", [key |-> key, ttl |-> ttl],
                      Out("ok", "", NoDict, [found |-> res.found, val |-> res.val]))
    /\ UNCHANGED <<now, ticks, users, identities, user_groups, tokens, sessions_made,
                   n_states, handlers, logouts, consumed>>

StoreDelete ==
    /\ \E key \in StoreKeys :
         LET res == delete(redis, SESSION_PREFIX, key)
         IN /\ redis' = res.redis
            /\ Return("delete", [key |-> key],
                      Out("ok", "", NoDict, [deleted |-> res.deleted]))
    /\ UNCHANGED <<now, ticks, users, identities, user_groups, tokens, sessions_made,
                   n_states, handlers, logouts, consumed>>

NextStore ==
    \/ StoreAdd
    \/ StoreGet
    \/ StoreRefreshTtl
    \/ StoreDelete
    \/ ClockOAuth

SpecStore == Init /\ [][NextStore]_vars

(***************************************************************************)
(* The writers of the two stores, add taken await by await: SET, then      *)
(* EXPIRE.  Between the two the event loop may run the other handler or    *)
(* the clock, and the handler may end there, by an error of the connection *)
(* or by cancellation.                                                     *)
(***************************************************************************)
\* the add of generate_url (a new state) or of authenticate (a new session)
\* as far as its first await
AddSet(h) ==
    /\ handlers[h] = Idle
    /\ \/ /\ n_states < MaxStates
          /\ n_states' = n_states + 1
          /\ redis' = RedisSet(redis, _build_key(CODES_PREFIX, <<n_states + 1>>),
                               Codes(n_states + 1))
          /\ handlers' = [handlers EXCEPT ![h] =
                            [pc |-> "expire", ttl |-> CODES_TTL,
                             key |-> _build_key(CODES_PREFIX, <<n_states + 1>>)]]
          /\ UNCHANGED sessions_made
       \/ /\ Len(sessions_made) < MaxPairs
          /\ sessions_made' = Append(sessions_made, "login")
          /\ LET session == Session(NextSid, 1, expires_at(SESSION_EXPIRE_IN, now), now)
                 key == _build_key(SESSION_PREFIX, build_key(SESSION_PREFIX, <<NextSid>>))
             IN /\ redis' = RedisSet(redis, key, session)
                /\ handlers' = [handlers EXCEPT ![h] =
                                  [pc |-> "expire", ttl |-> session.expires_at - now,
                                   key |-> key]]
          /\ UNCHANGED n_states
    /\ Return("set", NoDict, Out("ok", "", NoDict, NoDict))
    /\ UNCHANGED <<now, ticks, users, identities, user_groups, tokens, logouts,
                   consumed>>

\* its second await
AddExpire(h) ==
    /\ handlers[h].pc = "expire"
    /\ redis' = IF handlers[h].ttl # 0
                THEN RedisExpire(redis, handlers[h].key, handlers[h].ttl, now)
                ELSE redis
    /\ handlers' = [handlers EXCEPT ![h] = Idle]
    /\ Return("expire", NoDict, Out("ok", "", NoDict, NoDict))
    /\ UNCHANGED <<now, ticks, users, identities, user_groups, tokens, sessions_made,
                   n_states, logouts, consumed>>

\* the handler ends at its second await instead: the call to the server
\* raises, or the task is cancelled while it waits
AddAbandon(h) ==
    /\ handlers[h].pc = "expire"
    /\ handlers' = [handlers EXCEPT ![h] = Idle]
    /\ Return("expire", NoDict, Out("ConnectionError", "", NoDict, NoDict))
    /\ UNCHANGED <<now, ticks, redis, users, identities, user_groups, tokens,
                   sessions_made, n_states, logouts, consumed>>

NextWriters ==
    \/ \E h \in Handlers : AddSet(h)
    \/ \E h \in Handlers : AddExpire(h)
    \/ \E h \in Handlers : AddAbandon(h)
    \/ ClockOAuth

SpecWriters == Init /\ [][NextWriters]_vars

(***************************************************************************)
(* Properties.                                                             *)
(***************************************************************************)
\* the key space holds a Session record with this session_id
SessionStored(session_id) ==
    \E k \in DOMAIN redis :
        "session_id" \in DOMAIN redis[k].val /\ redis[k].val.session_id = session_id

OAuthOps == {"oauth_register", "oauth_authenticate"}
Expired == [active |-> FALSE, cause |-> "Token expired"]
WrongRealm == [active |-> FALSE, cause |-> "Invalid token in this realm"]

\* C1: whenever introspect_user returns active claims the store holds an entry
\* for the session id of the call, and a call whose session id is missing or
\* has no entry raises Unauthorized("Session not found"), whatever the token
\* (a token that cannot be decoded included).
C1_ActiveOnlyWithSession ==
    \A token \in UserTokens \cup {Garbage}, realm \in LoginRealms,
       session_id \in SessionIds :
        LET out == introspect(redis, token, realm, session_id, now)
        IN /\ (out.err = "ok" /\ out.claims.active)
                => (session_id # None /\ SessionStored(session_id))
           /\ (session_id = None \/ ~SessionStored(session_id))
                => (out.err = "UnauthorizedError" /\ out.msg = "Session not found")

\* an introspection has just returned active claims for a stored session
C1_Witness ==
    /\ last.op = "introspect_user"
    /\ last.err = "ok"
    /\ last.claims = [active |-> TRUE]
    /\ SessionStored(last.args.session_id)

\* C2: once logout was called with the id of a session a login created, the
\* store holds no entry for it and every introspect_user with that id raises
\* Unauthorized("Session not found").
C2_LogoutEndsSession ==
    \A sid \in logouts :
        (sid <= Len(sessions_made) /\ sessions_made[sid] = "login")
            => /\ ~SessionStored(sid)
               /\ \A token \in UserTokens \cup {Garbage}, realm \in LoginRealms :
                    LET out == introspect(redis, token, realm, sid, now)
                    IN out.err = "UnauthorizedError" /\ out.msg = "Session not found"

C4_AtMostOneObtainsCodes ==
    \A h1, h2 \in Handlers :
        (/\ h1 # h2
         /\ handlers[h1].pc \in {"pop_delete", "exchange"}
         /\ handlers[h2].pc \in {"pop_delete", "exchange"})
            => handlers[h1].state # handlers[h2].state

\* C5: introspecting a signed token of the requested realm whose exp has passed
\* raises nothing and returns active=false with cause "Token expired", for a
\* client token and, with a stored session, for a user token.
C5_ExpiredIsInactive ==
    /\ \A tk \in ClientTokens :
         tk.payload.exp < now
            => client_introspect(tk, tk.payload.realm, now) = Out("ok", "", Expired, NoDict)
    /\ \A tk \in UserTokens, session_id \in SessionIds :
         (tk.payload.exp < now /\ SessionStored(session_id))
            => introspect(redis, tk, tk.payload.realm, session_id, now)
                 = Out("ok", "", Expired, NoDict)

\* C6: the token a successful authenticate_client returns introspects, in the
\* realm of the request, as active with that realm and with the scope claim
\* being the granted scopes: the requested ones that are permitted, in request
\* order, joined by spaces.
C6_ScopeIsGranted ==
    (last.op = "authenticate_client" /\ last.err = "ok")
        => LET granted == _validate_scopes(format_scope(last.args.scope).v,
                                           Clients[last.args.client_id].scopes, FALSE)
               out == client_introspect(last.result.access_token, last.args.realm, now)
           IN /\ out.err = "ok"
              /\ out.claims.active
              /\ out.claims.realm = last.args.realm
              /\ out.claims.scope = JoinSp(granted.v)

\* C7: a token issued for one realm, introspected with another realm, makes
\* introspect_client raise Unauthorized("Invalid token in this realm") and
\* makes introspect_user (with a stored session) return active=false with
\* that cause, without raising.
C7_OtherRealmRejected ==
    /\ \A tk \in ClientTokens, realm \in LoginRealms :
         realm # tk.payload.realm
            => LET out == client_introspect(tk, realm, now)
               IN out.err = "UnauthorizedError" /\ out.msg = "Invalid token in this realm"
    /\ \A tk \in UserTokens, realm \in LoginRealms, session_id \in SessionIds :
         (realm # tk.payload.realm /\ SessionStored(session_id))
            => introspect(redis, tk, realm, session_id, now)
                 = Out("ok", "", WrongRealm, NoDict)

\* C8: without strict mode _validate_scopes returns the requested scopes that
\* are permitted, in request order, and null exactly when no requested scope is
\* permitted; in strict mode it returns null whenever a requested scope is not
\* permitted.
C8_ValidateScopes ==
    last.op = "_validate_scopes"
        => LET A == last.args.requested_scopes
               B == last.args.client_scopes
               res == last.result
               Permitted(a) == a \in Range(B)
           IN /\ ~last.args.strict_mode
                   => /\ res.null <=> (Range(A) \cap Range(B) = {})
                      /\ ~res.null => res.v = SelectSeq(A, Permitted)
              /\ (last.args.strict_mode /\ Range(A) \ Range(B) # {}) => res.null

\* a call without strict mode dropped a scope and kept two in request order
C8_Witness ==
    /\ last.op = "_validate_scopes"
    /\ ~last.args.strict_mode
    /\ ~last.result.null
    /\ Len(last.result.v) = 2
    /\ last.result.v[1] # last.result.v[2]
    /\ Len(last.args.requested_scopes) = 3

C10_UserTokenClaims ==
    /\ \A tk \in UserTokens :
         /\ {"sub", "realm", "email", "status", "roles"} \subseteq DOMAIN tk.payload
         /\ tk.payload.roles.t = "str"
    /\ (last.op = "refresh" /\ last.err = "ok")
         => \A tk \in PairTokens(last.result) :
              \A k \in {"sub", "email", "status", "realm"} :
                 k \in DOMAIN tk.payload /\ tk.payload[k] = last.args.token.payload[k]

\* C11: whatever list the role resolver produces (the default, or the union
\* of the roles of the user's groups, empty when every group has no role),
\* the token signed with these roles introspects without error and its roles
\* claim is that list again.
C11_RolesRoundTrip ==
    last.op = "introspect_roles"
        => /\ last.err = "ok"
           /\ "roles" \in DOMAIN last.claims
           /\ last.claims.roles = [t |-> "list", v |-> last.args.roles]

\* the refresh tokens introspect reports active in this realm with this session
ActiveRefreshTokens(realm, session_id) ==
    {tk \in UserTokens :
        /\ tk.payload.token_type = "refresh"
        /\ LET out == introspect(redis, tk, realm, session_id, now)
           IN out.err = "ok" /\ out.claims.active}

\* C12: with a stored session and a refresh token active in the current realm,
\* switch_realm towards a realm that is missing or disabled raises
\* PermissionDenied("Realm switching not allowed") and returns no token.
C12_ClosedRealmDenied ==
    \A current_realm \in LoginRealms, target_realm \in TargetRealms,
       session_id \in SessionIds :
        (/\ current_realm # target_realm
         /\ ~_can_switch_realm(target_realm)
         /\ SessionStored(session_id))
            => \A tk \in ActiveRefreshTokens(current_realm, session_id) :
                 \A res \in switch_realm(redis, users, current_realm, target_realm, tk,
                                         session_id, now, NextJti) :
                    /\ res.out.err = "PermissionDeniedError"
                    /\ res.out.msg = "Realm switching not allowed"
                    /\ res.out.result = NoDict

\* C13: right after a login in realm A, switch_realm to any other enabled
\* realm with the refresh token and the session id of that login returns a
\* pair with that session id and leaves the key space as it was.
C13_SwitchKeepsSession ==
    (last.op = "login" /\ last.err = "ok")
        => \A target_realm \in TargetRealms :
             (target_realm # last.args.realm /\ _can_switch_realm(target_realm))
                => \A res \in switch_realm(redis, users, last.args.realm, target_realm,
                                           last.result.refresh_token,
                                           last.result.session_id, now, NextJti) :
                      /\ res.out.err = "ok"
                      /\ res.out.result.session_id = last.result.session_id
                      /\ res.redis = redis

\* a realm that exists and is not enabled
DisabledRealms == {slug \in RealmSlugs : ~Realms[slug].enabled}

\* C15: authenticate_user for a user whose status is banned or deleted raises
\* NotEnabled whatever the password, the right one included, and leaves the
\* session store as it was.
C15_BannedOrDeletedRejected ==
    \A realm \in TargetRealms, email \in Emails, password \in Passwords :
        LET u == get_by_email(users, email)
        IN (u.found /\ users[u.id].status \in {"banned", "deleted"})
              => \A res \in authenticate(redis, users, realm, email, password, now,
                                         NextSid, NextJti) :
                    res.out.err = "NotEnabledError" /\ res.redis = redis

\* C16: with the slug of a disabled realm neither authenticate_client nor
\* authenticate_user returns a token, and authenticate_user stores no session,
\* whatever the credentials.
C16_DisabledRealmRejects ==
    \A realm \in DisabledRealms :
        /\ \A c \in LoginCallsIn({realm}) : c.out.err # "ok" /\ c.redis = redis
        /\ \A c \in ClientAuthenticateCallsIn({realm}) : c.out.err # "ok"

\* C17: a login with an unknown email and a login with a known email and a
\* wrong password give the caller the same error kind, message and HTTP
\* status.
C17_LoginFailuresAlike ==
    \A realm \in TargetRealms, unknown \in Emails, known \in Emails,
       p1 \in Passwords, p2 \in Passwords :
        LET u == get_by_email(users, known)
            Seen(email, password) ==
                {login_user(res.out)
                 : res \in authenticate(redis, users, realm, email, password, now,
                                        NextSid, NextJti)}
        IN (/\ ~get_by_email(users, unknown).found
            /\ u.found
            /\ ~verify_secret(p2, users[u.id].password))
              => Seen(unknown, p1) = Seen(known, p2)

RegisterEffects == <<"user", "identity", "session", "tokens">>

IsPrefix(s, t) == Len(s) <= Len(t) /\ s = SubSeq(t, 1, Len(s))

\* C20: the side effects of a register handler happen in the order user,
\* identity, session, tokens; a handler that fails before the tokens are
\* issued returns neither a pair nor a session id, and a handler that returns
\* a pair has created the user, the identity and the session of the pair.
C20_RegisterOrder ==
    /\ \A h \in Handlers :
         handlers[h].pc \in Range(register_steps)
            => IsPrefix(handlers[h].effects, RegisterEffects)
    /\ last.op = "register"
         => /\ IsPrefix(last.args.effects, RegisterEffects)
            /\ last.err # "ok"
                 => (last.result = NoDict /\ "tokens" \notin Range(last.args.effects))
            /\ last.err = "ok"
                 => /\ last.args.effects = RegisterEffects
                    /\ SessionStored(last.result.session_id)
                    /\ get_by_provider(identities, last.args.provider_user_id).found

\* a register has failed at the session insert, after the user and the
\* identity were created
C20_Witness ==
    /\ last.op = "register"
    /\ last.err = "ConnectionError"
    /\ last.args.effects = <<"user", "identity">>
    /\ last.result = NoDict

\* the refresh tokens that have not expired
LiveRefreshTokens ==
    {tk \in UserTokens : tk.payload.token_type = "refresh" /\ tk.payload.exp > now}

\* the session refresh reads for this id
RefreshSession(session_id) ==
    get(redis, SESSION_PREFIX, build_key(SESSION_PREFIX, <<session_id>>))

\* C18: refresh with a refresh token active in the realm and a stored session
\* that has less than SESSION_REFRESH_THRESHOLD seconds left returns a pair
\* for the same session id and sets the expiry of the session's key to what
\* was left plus SESSION_REFRESH_IN seconds.
C18_RefreshExtendsSession ==
    \A realm \in LoginRealms, session_id \in SessionIds :
        LET session == RefreshSession(session_id)
        IN (session.found /\ session.val.expires_at - now < SESSION_REFRESH_THRESHOLD)
              => \A tk \in ActiveRefreshTokens(realm, session_id) :
                   \A res \in refresh(redis, tk, realm, session_id, now, NextJti) :
                      /\ res.out.err = "ok"
                      /\ res.out.result.session_id = session_id
                      /\ \E k \in DOMAIN res.redis :
                           /\ res.redis[k].val = session.val
                           /\ res.redis[k].exp
                                = now + (session.val.expires_at - now) + SESSION_REFRESH_IN

\* C19: refresh accepts every refresh token that has not expired, used before
\* or not, with its realm and a stored session, and the access token it
\* returns differs from every token issued before.
C19_RefreshTokenReusable ==
    \A session_id \in SessionIds :
        RefreshSession(session_id).found
           => \A tk \in LiveRefreshTokens :
                \A res \in refresh(redis, tk, tk.payload.realm, session_id, now, NextJti) :
                   /\ res.out.err = "ok"
                   /\ res.out.result.access_token \notin tokens

\* the first of the five checks of authenticate_client that fails, as the
\* error it is reported with, or "ok" when all five pass
FirstFailedCheck(realm, grant_type, client_id, client_secret, scope) ==
    LET requested == {Word(w) : w \in Range(SplitSp(scope))}
    IN IF grant_type # "client_credentials" THEN "UnsupportedGrantTypeError"
       ELSE IF client_id \notin DOMAIN Clients \/ Clients[client_id].realm # realm
       THEN "UnauthorizedError"
       ELSE IF ~Clients[client_id].enabled THEN "NotEnabledError"
       ELSE IF Clients[client_id].client_secret # hash_secret(client_secret)
       THEN "InvalidCredentialsError"
       ELSE IF requested \cap Range(Clients[client_id].scopes) = {}
       THEN "PermissionDeniedError"
       ELSE "ok"

\* C21: authenticate_client reports the first failing check among grant type,
\* client lookup, enabled flag, secret and scope intersection with the error
\* of that check, and returns an access token exactly when all five pass.
C21_ClientChecksInOrder ==
    \A realm \in TargetRealms, grant_type \in GrantTypes, client_id \in ClientIds,
       client_secret \in Secrets, scope \in ScopeStrings :
        LET out == client_authenticate(realm, grant_type, client_id, client_secret,
                                       scope, now, NextJti)
        IN /\ out.err = FirstFailedCheck(realm, grant_type, client_id, client_secret,
                                         scope)
           /\ (out.err = "ok") <=> (out.result # NoDict)

\* the lifetime configured for a token: by the subject it was signed for
\* (a client's payload carries scope, a user's roles) and by its type
Lifetime(tk) ==
    IF tk \in ClientTokens THEN CLIENT_ACCESS_TOKEN_EXPIRE_IN
    ELSE IF tk.payload.token_type = "refresh" THEN USER_REFRESH_TOKEN_EXPIRE_IN
    ELSE USER_ACCESS_TOKEN_EXPIRE_IN

\* C22: every issued token has token_type access or refresh and iat <= exp,
\* with exp - iat the lifetime of its kind (15 minutes for a user access
\* token, 7 days for a refresh token, 30 minutes for a client access token);
\* the access token of a pair is an access token, its refresh token a refresh
\* token, and no refresh token is issued to a client.
C22_TokenLifetimes ==
    /\ \A tk \in tokens :
        /\ tk.payload.token_type \in {"access", "refresh"}
        /\ tk.payload.iat <= tk.payload.exp
        /\ tk.payload.exp - tk.payload.iat = Lifetime(tk)
        /\ tk \in ClientTokens => tk.payload.token_type = "access"
    /\ last.err = "ok" /\ last.result # NoDict /\ "access_token" \in DOMAIN last.result
        => /\ last.result.access_token.payload.token_type = "access"
           /\ "refresh_token" \in DOMAIN last.result
                => /\ last.result.refresh_token.payload.token_type = "refresh"
                   /\ last.result.refresh_token \in UserTokens
                   /\ last.result.access_token \in UserTokens

\* a refresh has returned a pair after the clock moved, and a client holds a token
C22_Witness ==
    /\ last.op = "refresh" /\ last.err = "ok" /\ now > 0
    /\ last.result.access_token.payload.iat = now
    /\ ClientTokens # {}

\* the keys of the key space that carry no expiry
WithoutExpiry(r) == {k \in DOMAIN r : r[k].exp = NoExpiry}

\* C23: add(key, value, ttl) with ttl = 0 or with a ttl already past is a
\* no-op: get(key) and exists(key) answer as before the call, and the call
\* leaves no entry without expiry.
C23_AddWithoutTtlIsNoOp ==
    \A key \in StoreKeys, schema \in StoreValues, ttl \in {t \in StoreTtls : t <= 0} :
        LET r1 == add(redis, SESSION_PREFIX, key, schema, ttl, now)
        IN /\ get(r1, SESSION_PREFIX, key) = get(redis, SESSION_PREFIX, key)
           /\ exists(r1, SESSION_PREFIX, key) = exists(redis, SESSION_PREFIX, key)
           /\ WithoutExpiry(r1) \subseteq WithoutExpiry(redis)

\* C24: refresh_ttl(key, ttl) on a present key sets the TTL of that key to
\* ttl, leaves every value as it is and returns the value stored at the key;
\* on an absent key it returns absent and changes nothing.
C24_RefreshTtlContract ==
    \A key \in StoreKeys, ttl \in {t \in StoreTtls : t > 0} :
        LET res == refresh_ttl(redis, SESSION_PREFIX, key, ttl, now)
            k == _build_key(SESSION_PREFIX, key)
        IN IF exists(redis, SESSION_PREFIX, key)
           THEN /\ res.found
                /\ res.val = redis[k].val
                /\ res.redis = [redis EXCEPT ![k].exp = now + ttl]
           ELSE /\ ~res.found
                /\ res.redis = redis

\* C25: an entry written to the session store or to the codes store carries an
\* expiry, so that the TTL removes it even when nothing touches it again; the
\* only entry without one is the entry a handler is writing, between the SET
\* and the EXPIRE of its add, and none is left when that handler has ended,
\* however it ended.
C25_NoEntryWithoutExpiry ==
    \A k \in WithoutExpiry(redis) :
        \E h \in Handlers : handlers[h].pc = "expire" /\ handlers[h].key = k

\* the keys of the key space that hold a Session record
SessionKeys(r) == {k \in DOMAIN r : "session_id" \in DOMAIN r[k].val}

Max(a, b) == IF a >= b THEN a ELSE b

C27_SessionWriteOnce ==
    [][\A k \in SessionKeys(redis) :
          IF k \in DOMAIN redis'
          THEN /\ redis'[k].val = redis[k].val
               /\ redis'[k].exp # redis[k].exp => last'.op = "refresh"
          ELSE last'.op \in {"logout", "tick"}]_vars

\* the same user has logged in a second time, later, while the session of the
\* first login is still in the store
C27_Witness ==
    /\ last.op = "login" /\ last.err = "ok"
    /\ \E k1, k2 \in SessionKeys(redis) :
         /\ redis[k1].val.user_id = redis[k2].val.user_id
         /\ redis[k1].val.last_activity < redis[k2].val.last_activity

\* C28: refresh raises Unauthorized, returns no pair and leaves the store, its
\* entries and their expiries, as it was whenever the session is absent, the
\* token is of another realm, the token has expired or the token cannot be
\* decoded.
C28_RefreshRejects ==
    \A token \in UserTokens \cup {Garbage}, realm \in LoginRealms,
       session_id \in SessionIds :
        LET absent == session_id = None \/ ~SessionStored(session_id)
            other == token # Garbage /\ token.payload.realm # realm
            expired == token # Garbage /\ token.payload.exp < now
        IN (absent \/ token = Garbage \/ other \/ expired)
              => \A res \in refresh(redis, token, realm, session_id, now, NextJti) :
                   /\ res.out.err = "UnauthorizedError"
                   /\ res.out.result = NoDict
                   /\ res.redis = redis

\* refresh has just refused the token of another realm on a stored session,
\* and an expired token of the right realm is at hand for that session too
C28_Witness ==
    /\ last.op = "refresh" /\ last.err = "UnauthorizedError"
    /\ last.msg = "Invalid token in this realm"
    /\ \E session_id \in SessionIds, token \in UserTokens :
         /\ SessionStored(session_id)
         /\ token.payload.exp < now

\* the key space without the Session records of this session_id
WithoutSession(r, session_id) ==
    [k \in {j \in DOMAIN r : j \notin SessionKeys(r) \/ r[j].val.session_id # session_id}
        |-> r[k]]

\* C29: logout with the id of a stored session removes that session, nothing
\* else, and succeeds, and a second logout with the same id then fails; logout
\* with an id that has no session changes nothing and answers 401
\* "Session expired, maybe already logout".
C29_LogoutOnceOnly ==
    \A session_id \in SessionIds \ {None} :
        LET res == logout_user(redis, session_id)
            again == logout_user(res.redis, session_id)
        IN IF SessionStored(session_id)
           THEN /\ res.out.err = "ok"
                /\ res.redis = WithoutSession(redis, session_id)
                /\ again.out.err = "HTTP401"
                /\ again.out.msg = "Session expired, maybe already logout"
                /\ again.redis = res.redis
           ELSE /\ res.out.err = "HTTP401"
                /\ res.out.msg = "Session expired, maybe already logout"
                /\ res.redis = redis

\* C30: refresh, switch_realm and the OAuth flows return no pair for a user
\* whose status is banned or deleted when the call is made.
C30_NoPairForBannedOrDeleted ==
    (last.op \in {"refresh", "switch_realm"} \cup OAuthOps /\ last.err = "ok")
        => users[last.result.access_token.payload.sub].status \notin {"banned", "deleted"}

\* C31: authenticate_user for an email that matches no user, or for a user
\* without a password hash, raises InvalidCredentials("Invalid email") and
\* adds no session to the store.
C31_NoUserOrNoPassword ==
    \A realm \in TargetRealms, email \in Emails, password \in Passwords :
        LET u == get_by_email(users, email)
        IN (~u.found \/ users[u.id].password = NoPassword)
              => \A res \in authenticate(redis, users, realm, email, password, now,
                                         NextSid, NextJti) :
                    /\ res.out.err = "InvalidCredentialsError"
                    /\ res.out.msg = "Invalid email"
                    /\ res.redis = redis

\* the roles of the groups the user has in the realm, as a set
GroupRoles(realm, user_id) ==
    UNION {Range(Groups[g].roles) : g \in get_by_user(realm, user_id)}

\* the roles resolve_roles is to return, as a set
ResolvedRoles(realm, user_id) ==
    IF get_by_user(realm, user_id) = {} THEN Range(DEFAULT_ROLES)
    ELSE GroupRoles(realm, user_id)

\* C32: the role resolver returns DEFAULT_ROLES for a user without a group in
\* the realm and otherwise the roles of the user's groups there, each once;
\* the tokens of a refreshed pair carry the roles resolved when refresh ran.
C32_RolesResolvedAtRefresh ==
    /\ \A realm \in TargetRealms, user_id \in DOMAIN users :
         \A roles \in _give_roles(realm, user_id) :
            /\ get_by_user(realm, user_id) = {} => roles = DEFAULT_ROLES
            /\ Range(roles) = ResolvedRoles(realm, user_id)
            /\ Len(roles) = Cardinality(Range(roles))
    /\ (last.op = "refresh" /\ last.err = "ok")
          => \A tk \in PairTokens(last.result) :
                Range(tk.payload.roles.v) = ResolvedRoles(tk.payload.realm, tk.payload.sub)

\* a refresh has returned a pair whose roles are not those of the token it
\* was given: a group of the user was deleted in between
C32_Witness ==
    /\ last.op = "refresh" /\ last.err = "ok"
    /\ Range(last.result.access_token.payload.roles.v)
          # Range(validate_roles(last.args.token.payload.roles).v)

\* C33: no two users have the same email, whatever the interleaving of the
\* register_user calls: of two calls with one email at most one creates a user.
C33_EmailsUnique ==
    \A u1, u2 \in DOMAIN users : users[u1].email = users[u2].email => u1 = u2

\* C34: the entry a login (authenticate_user, oauth_register or
\* oauth_authenticate) wrote for session id s sits under the prefix applied
\* once to s, and it is the entry introspect_user's exists, refresh's get and
\* refresh_ttl, switch_realm's get and logout's delete address for s.
C34_OneKeyPerSession ==
    \A k \in SessionKeys(redis) :
        LET s == redis[k].val.session_id
            key == build_key(SESSION_PREFIX, <<s>>)
        IN /\ k = <<SESSION_PREFIX, s>>
           /\ exists(redis, SESSION_PREFIX, key)
           /\ get(redis, SESSION_PREFIX, key) = [found |-> TRUE, val |-> redis[k].val]
           /\ refresh_ttl(redis, SESSION_PREFIX, key, SESSION_REFRESH_IN, now).found
           /\ get(redis, SESSION_PREFIX, <<s>>) = [found |-> TRUE, val |-> redis[k].val]
           /\ delete(redis, SESSION_PREFIX, <<s>>).redis = WithoutSession(redis, s)

\* the users whose live session has this id
SessionUsers(session_id) ==
    {redis[k].val.user_id : k \in {j \in SessionKeys(redis) :
                                      redis[j].val.session_id = session_id}}

\* C35: with the token of one user and the id of a live session of another
\* user, introspect_user does not report the token active, and refresh and
\* switch_realm issue no pair.
C35_TokenOnlyWithOwnSession ==
    \A token \in UserTokens, realm \in LoginRealms, session_id \in SessionIds :
        (SessionUsers(session_id) # {} /\ token.payload.sub \notin SessionUsers(session_id))
           => /\ LET out == introspect(redis, token, realm, session_id, now)
                 IN ~(out.err = "ok" /\ out.claims.active)
              /\ \A res \in refresh(redis, token, realm, session_id, now, NextJti) :
                    res.out.err # "ok"
              /\ \A target_realm \in TargetRealms :
                    \A res \in switch_realm(redis, users, realm, target_realm, token,
                                            session_id, now, NextJti) :
                       res.out.err # "ok"

\* the access tokens that are valid and unexpired now
LiveAccessTokens ==
    {tk \in UserTokens : tk.payload.token_type = "access" /\ tk.payload.exp > now}

\* C36: presenting a valid, unexpired access token of the same realm, with the
\* live session of the token's own user, never makes refresh or switch_realm
\* issue a pair.
C36_OnlyRefreshTokensRefresh ==
    \A token \in LiveAccessTokens, session_id \in SessionIds :
        SessionUsers(session_id) = {token.payload.sub}
           => /\ \A res \in refresh(redis, token, token.payload.realm, session_id,
                                     now, NextJti) :
                    res.out.err # "ok"
              /\ \A target_realm \in TargetRealms :
                    \A res \in switch_realm(redis, users, token.payload.realm,
                                            target_realm, token, session_id, now,
                                            NextJti) :
                       res.out.err # "ok"

C38_LoggedOutStaysAbsent ==
    \A session_id \in logouts :
        /\ ~SessionStored(session_id)
        /\ \A token \in UserTokens \cup {Garbage}, realm \in LoginRealms :
              introspect(redis, token, realm, session_id, now).err = "UnauthorizedError"

\* the step in which the callback of handler h ends on a failed request to the
\* provider
ProviderFailed(h) ==
    /\ handlers[h].pc = "exchange"
    /\ handlers'[h].pc = "idle"
    /\ last'.op \in OAuthOps
    /\ last'.err = "NotFoundHTTPError"

\* C39: the state is consumed before the provider is contacted: when the token
\* or userinfo request fails, the state is already out of the codes store, a
\* pop with the same state finds nothing (the retry raises BadRequest), and
\* the failed attempt has added no user, no identity and no session.
C39_FailedExchangeConsumesState ==
    /\ [](\A s \in consumed : ~pop_get(redis, <<s>>).found)
    /\ [][\A h \in Handlers :
            ProviderFailed(h)
               => /\ handlers[h].state \in consumed
                  /\ ~exists(redis', CODES_PREFIX, <<handlers[h].state>>)
                  /\ ~pop_get(redis', <<handlers[h].state>>).found
                  /\ users' = users
                  /\ identities' = identities
                  /\ SessionKeys(redis') = SessionKeys(redis)]_vars

\* a callback that had obtained the Codes record has ended on a failed
\* request to the provider
C39_Witness ==
    /\ last.op \in OAuthOps
    /\ last.err = "NotFoundHTTPError"
    /\ last.args.exchange
    /\ ~last.args.late
    /\ last.args.state \in consumed
    /\ \E h \in Handlers : handlers[h].pc = "idle"

====
